---------------------------- MODULE Spec2Model ----------------------------
(***************************************************************************)
(* The unified workflow graph of the sustainability research agent         *)
(* (research_agent/graph_builder.py), its two fan-out functions            *)
(* (research_agent/research_tools.py) and the document cache               *)
(* (research_agent/file_tools.py).                                         *)
(*                                                                         *)
(* Text is a sequence of tokens: "Error", "Warning", "Skipped" are the     *)
(* words the code tests with startswith(); " " is whitespace; "," is the   *)
(* comma identify_companies splits on.  The workflow state is a function   *)
(* from the keys that have been written to their values, as LangGraph      *)
(* hands it to a node: state.get(k) of a key never written is the default. *)
(***************************************************************************)
EXTENDS Naturals, Sequences, FiniteSets, TLC

\* ------------------------------------------------------------------ bounds
MaxResp == 3        \* tokens in a completion-service answer
MaxHistory == 1     \* messages in the conversation history of a request
MaxCalls == 3       \* download_pdf calls issued for one URL
MaxHits == 2        \* results the search provider returns for one query
MaxPages == 1       \* pages of a downloaded document
MaxDocPages == 3    \* pages of a document given to extract_text_from_pdf directly
MaxTasks == 2       \* analysis tasks submitted to the API server
MaxClock == 2       \* seconds the database clock advances
MaxLogged == 3      \* task ids logged to the task history directly
MaxLimit == 1       \* the limits of query_tasks, besides the default

\* ------------------------------------------------------------------ text
None == <<"<None>">>
StartsWith(s, tok) == Len(s) > 0 /\ s[1] = tok

RECURSIVE LStrip(_)
LStrip(s) == IF s # <<>> /\ Head(s) \in {" ", "\n"} THEN LStrip(Tail(s)) ELSE s

RECURSIVE RStrip(_)
RStrip(s) == IF s # <<>> /\ s[Len(s)] \in {" ", "\n"} THEN RStrip(SubSeq(s, 1, Len(s) - 1)) ELSE s

Strip(s) == RStrip(LStrip(s))

\* str.split(","): the pieces between the commas, empty pieces included.
RECURSIVE SplitComma(_, _)
SplitComma(s, cur) ==
    IF s = <<>> THEN <<cur>>
    ELSE IF Head(s) = "," THEN <<cur>> \o SplitComma(Tail(s), <<>>)
    ELSE SplitComma(Tail(s), Append(cur, Head(s)))

RECURSIVE SeqsUpTo(_, _)
SeqsUpTo(S, n) ==
    IF n = 0 THEN {<<>>}
    ELSE LET shorter == SeqsUpTo(S, n - 1)
         IN  shorter \cup {Append(s, x) : s \in shorter, x \in S}

Range(s) == {s[i] : i \in DOMAIN s}

\* The exception texts a collaborator can raise with.
Exceptions == {<<"boom">>}

\* ------------------------------------------------------- workflow state
EmptyUpdate == [k \in {} |-> <<>>]

Get(s, k, default) == IF k \in DOMAIN s THEN s[k] ELSE default

\* Python truthiness of state.get(k) for a text field.
Truthy(s, k) == k \in DOMAIN s /\ s[k] # <<>> /\ s[k] # None

\* The value of a mapping-typed field is a dict or, where the code stores the
\* result of calling an async function without awaiting it, a coroutine object.
PyDict(f) == [kind |-> "dict", items |-> f]
Coroutine(args) == [kind |-> "coroutine", args |-> args]
EmptyDict == PyDict([c \in {} |-> <<>>])

\* add_messages, the reducer of MessagesState's "messages" channel.
AddMessages(old, new) == old \o new

\* A node's update applied to the state: last value wins, "messages" reduced.
ApplyUpdate(s, u) ==
    [k \in DOMAIN s \cup DOMAIN u |->
        IF k \notin DOMAIN u THEN s[k]
        ELSE IF k = "messages" THEN AddMessages(s[k], u[k])
        ELSE u[k]]

Returned(u) == [kind |-> "return", update |-> u]
Raised(e) == [kind |-> "raise", exc |-> e]


\* ------------------------------------------------------------ collaborators
\* What a call of a collaborator can do: raise, or return a value.
Raises == {[kind |-> "raise", exc |-> e] : e \in Exceptions}
Ok(v) == [kind |-> "ok", value |-> v]

\* llm.invoke(company_prompt).content: any text over these tokens.
RespTokens == {"A", "B", ",", " "}
Responses == SeqsUpTo(RespTokens, MaxResp)
LlmOutcomes == Raises \cup {Ok(r) : r \in Responses}

\* llm.invoke(synthesis_prompt).content
SynthesisOutcomes == Raises \cup {Ok(<<"trends">>), Ok(<<>>)}

\* react_agent_executor.invoke: raises, or a response whose "output" is a text.
AgentOutcomes == Raises \cup {Ok(<<>>), Ok(<<"answer">>)}

\* ------------------------------------------------------------------ nodes
\* graph_builder.py:78  the router node updates nothing.
route_request(s) == Returned(EmptyUpdate)

\* decide_route with the two tests in the other order.
decide_route_mut(s) ==
    IF Truthy(s, "input_query") THEN "basic_agent_path"
    ELSE IF Truthy(s, "industry") THEN "research_path"
    ELSE "error"

\* graph_builder.py:95
decide_route(s) ==
    IF Truthy(s, "industry") THEN "research_path"
    ELSE IF Truthy(s, "input_query") THEN "basic_agent_path"
    ELSE "error"

\* graph_builder.py:253-257  only human and ai messages are copied into the
\* temporary memory.
MemoryOf(messages) ==
    SelectSeq(messages, LAMBDA m : m.role \in {"human", "ai"})

\* run_basic_agent with a failure that also fills in the default answer.
run_basic_agent_mut(s, outcome) ==
    IF outcome.kind = "raise"
    THEN Returned([error_message |->
             <<"Failed during basic agent execution:">> \o outcome.exc,
                   agent_response |-> <<"Agent did not provide a final answer.">>])
    ELSE Returned([messages |-> <<>>, agent_response |-> outcome.value])

\* graph_builder.py:243
run_basic_agent(s, outcome) ==
    LET query == s["input_query"]
        memory == MemoryOf(Get(s, "messages", <<>>))
    IN  IF outcome.kind = "raise"
        THEN Returned([error_message |->
                 <<"Failed during basic agent execution:">> \o outcome.exc])
        ELSE LET agent_response ==
                     IF outcome.value = None
                     THEN <<"Agent did not provide a final answer.">>
                     ELSE outcome.value
                 updated_messages ==
                     memory \o <<[role |-> "human", content |-> query],
                                 [role |-> "ai", content |-> outcome.value]>>
             IN  Returned([messages |-> updated_messages,
                           agent_response |-> agent_response])

\* ParseCompanies with the names kept as they were split.
ParseCompanies_mut(content) ==
    LET pieces == SplitComma(content, <<>>)
    IN  SelectSeq(pieces, LAMBDA name : Strip(name) # <<>>)

\* graph_builder.py:292  [name.strip() for name in content.split(",") if name.strip()]
ParseCompanies(content) ==
    LET pieces == SplitComma(content, <<>>)
        kept == SelectSeq(pieces, LAMBDA name : Strip(name) # <<>>)
    IN  [i \in DOMAIN kept |-> Strip(kept[i])]

\* graph_builder.py:278
identify_companies(s, outcome) ==
    IF Truthy(s, "error_message") THEN Returned(EmptyUpdate)
    ELSE IF outcome.kind = "raise"
    THEN Returned([error_message |-> <<"Failed to identify companies:">> \o outcome.exc])
    ELSE LET companies == ParseCompanies(outcome.value)
         IN  IF companies = <<>>
             THEN Returned([error_message |->
                      <<"Could not identify companies for industry">> \o s["industry"]])
             ELSE Returned([companies |-> companies,
                            report_urls |-> EmptyDict,
                            extracted_texts |-> EmptyDict,
                            individual_summaries |-> EmptyDict])

\* handle_error without the default of state.get.
handle_error_mut(s) ==
    Returned([error_message |-> Get(s, "error_message", None)])

\* graph_builder.py:426
handle_error(s) ==
    Returned([error_message |-> Get(s, "error_message", <<"Unknown error">>)])

\* graph_builder.py:433
route_research_step(s) ==
    IF Truthy(s, "error_message") THEN "handle_error" ELSE "continue"


\* ------------------------------------------------------------------ search
MAX_SEARCH_RESULTS == 5

Hrefs == {"https://x.org/a.pdf", "https://x.org/b.pdf", "https://x.org/c.html"}
PdfUrls == {"https://x.org/a.pdf", "https://x.org/b.pdf"}

\* ddgs.text(query, max_results): raises, or a list of results (their hrefs).
DdgsOutcomes == Raises \cup {Ok(r) : r \in SeqsUpTo(Hrefs, MaxHits)}

RECURSIVE FormatResults(_)
FormatResults(results) ==
    IF results = <<>> THEN <<>>
    ELSE <<"Title:", "w", "URL:", Head(results), "Snippet:", "w">>
             \o FormatResults(Tail(results))

\* search_tool.py:14
perform_duckduckgo_search(ddgs) ==
    IF ddgs.kind = "raise" THEN <<"Error", "during search:">> \o ddgs.exc
    ELSE LET results_list ==
                 SubSeq(ddgs.value, 1,
                        IF Len(ddgs.value) < MAX_SEARCH_RESULTS
                        THEN Len(ddgs.value) ELSE MAX_SEARCH_RESULTS)
         IN  IF results_list = <<>> THEN <<"No relevant search results found.">>
             ELSE <<"Search Results:">> \o FormatResults(results_list)

\* search_langchain_tool.run(query): the tool's function, or the Tool wrapper
\* itself raising.
SearchOutcomes == Raises \cup {Ok(perform_duckduckgo_search(d)) : d \in DdgsOutcomes}

\* graph_builder.py:324  re.findall(r"(https?://\S+\.pdf)", text, re.IGNORECASE)
FindPdfLinks(text) == SelectSeq(text, LAMBDA tok : tok \in PdfUrls)

\* SearchOne with the last link of the text instead of the first.
SearchOne_mut(outcome) ==
    IF outcome.kind = "raise" THEN <<"Error", "during search:">> \o outcome.exc
    ELSE LET pdf_links == FindPdfLinks(outcome.value)
         IN  IF pdf_links # <<>> THEN <<pdf_links[Len(pdf_links)]>> ELSE None

\* graph_builder.py:322-334  one company's entry of report_urls.
SearchOne(outcome) ==
    IF outcome.kind = "raise" THEN <<"Error", "during search:">> \o outcome.exc
    ELSE LET pdf_links == FindPdfLinks(outcome.value)
         IN  IF pdf_links # <<>> THEN <<pdf_links[1]>> ELSE None

\* graph_builder.py:309  outcomes[c] is what the search does for company c.
search_for_reports(s, outcomes) ==
    IF Truthy(s, "error_message") THEN Returned(EmptyUpdate)
    ELSE IF "companies" \notin DOMAIN s THEN Raised(<<"KeyError", "companies">>)
    ELSE LET companies == s["companies"]
             old == Get(s, "report_urls", EmptyDict).items
             report_urls ==
                 [c \in DOMAIN old \cup Range(companies) |->
                     IF c \in DOMAIN old THEN old[c] ELSE SearchOne(outcomes[c])]
         IN  Returned([report_urls |-> PyDict(report_urls)])

\* ------------------------------------------------------------- synthesis
RECURSIVE SetToSeq(_)
SetToSeq(S) ==
    IF S = {} THEN <<>>
    ELSE LET x == CHOOSE y \in S : TRUE IN <<x>> \o SetToSeq(S \ {x})

RECURSIVE ReportList(_, _)
ReportList(comps, urls) ==
    IF comps = <<>> THEN <<>>
    ELSE <<"-">> \o Head(comps)
             \o (IF Head(comps) \in DOMAIN urls THEN urls[Head(comps)]
                 ELSE <<"URL not found/processed">>)
             \o ReportList(Tail(comps), urls)

\* graph_builder.py:389-393
ValidSummaries(items) ==
    {c \in DOMAIN items :
        /\ items[c] # <<>> /\ items[c] # None
        /\ ~StartsWith(items[c], "Error")
        /\ ~StartsWith(items[c], "Skipped")}

\* synthesize_trends without the test of error_message on entry.
synthesize_trends_mut(s, outcome) ==
    IF {"industry", "individual_summaries", "report_urls"} \ DOMAIN s # {}
    THEN Raised(<<"KeyError">>)
    ELSE LET individual_summaries == s["individual_summaries"]
             report_urls == s["report_urls"]
         IN  IF individual_summaries.kind = "coroutine"
             THEN Raised(<<"AttributeError", "'coroutine' object has no attribute 'items'">>)
             ELSE LET valid_summaries == ValidSummaries(individual_summaries.items)
                  IN  IF valid_summaries = {}
                      THEN Returned([error_message |->
                          <<"Analysis failed: No valid summaries could be generated.">>])
                      ELSE IF outcome.kind = "raise"
                      THEN Returned([error_message |->
                          <<"Failed during the final synthesis step:">> \o outcome.exc])
                      ELSE Returned([synthesis_result |->
                          <<"Analysis based on reports processed for:">>
                              \o ReportList(SetToSeq(valid_summaries), report_urls.items)
                              \o <<"--- Synthesized Trends ---">>
                              \o outcome.value])

\* graph_builder.py:381
synthesize_trends(s, outcome) ==
    IF Truthy(s, "error_message") THEN Returned(EmptyUpdate)
    ELSE IF {"industry", "individual_summaries", "report_urls"} \ DOMAIN s # {}
    THEN Raised(<<"KeyError">>)
    ELSE LET individual_summaries == s["individual_summaries"]
             report_urls == s["report_urls"]
         IN  IF individual_summaries.kind = "coroutine"
             THEN Raised(<<"AttributeError", "'coroutine' object has no attribute 'items'">>)
             ELSE LET valid_summaries == ValidSummaries(individual_summaries.items)
                  IN  IF valid_summaries = {}
                      THEN Returned([error_message |->
                          <<"Analysis failed: No valid summaries could be generated.">>])
                      ELSE IF outcome.kind = "raise"
                      THEN Returned([error_message |->
                          <<"Failed during the final synthesis step:">> \o outcome.exc])
                      ELSE Returned([synthesis_result |->
                          <<"Analysis based on reports processed for:">>
                              \o ReportList(SetToSeq(valid_summaries), report_urls.items)
                              \o <<"--- Synthesized Trends ---">>
                              \o outcome.value])


\* -------------------------------------------------------------- file tools
MAX_DOWNLOAD_RETRIES == 3

\* urlparse(url), for the URLs of the model: <<scheme, netloc>>.
Urlparse(url) ==
    CASE url = "https://x.org/a.pdf" -> <<"https", "x.org">>
      [] url = "https://x.org/b.pdf" -> <<"https", "x.org">>
      [] url = "https://x.org/c.html" -> <<"https", "x.org">>
      [] url = "ftp://x.org/a.pdf" -> <<"ftp", "x.org">>
      [] url = "http://" -> <<"http", "">>
      [] OTHER -> <<"", "">>

\* _is_valid_url without the test of the scheme.
is_valid_url_mut(url) ==
    LET result == Urlparse(url)
    IN  result[2] # ""

\* file_tools.py:22
is_valid_url(url) ==
    LET result == Urlparse(url)
    IN  result[1] \in {"http", "https"} /\ result[2] # ""

\* file_tools.py:31  the slug of the path's basename when it ends in .pdf, and
\* a prefix of the SHA-256 of the URL; the bare hash otherwise.
url_to_filename(url) ==
    CASE url = "https://x.org/a.pdf" -> "a_5e1f0c2a9b.pdf"
      [] url = "https://x.org/b.pdf" -> "b_77c3d9e041.pdf"
      [] url = "https://x.org/c.html" -> "c0ffee.pdf"
      [] OTHER -> "0ther.pdf"

\* file_tools.py:78  os.path.join(CACHE_DIR, filename)
LocalFilepath(url) == <<"pdf_cache/", url_to_filename(url)>>

\* file_tools.py:73
InvalidUrlError(url) == <<"Error", ": Invalid URL provided:", url>>

\* file_tools.py:134-175  the Error sentinel of a download that failed for good.
DownloadError(url, why) ==
    <<"Error", ": Failed to download PDF from", url, "after 3 attempts", why>>

\* page.extract_text() of one page.
PageTexts == {<<>>, <<"t">>, <<"Error", "t">>, <<" ">>}

\* What extraction finds: no file at the path, a reader that raises, or pages.
ExtractOutcomes ==
    {[kind |-> "missing"]} \cup Raises \cup {Ok(p) : p \in SeqsUpTo(PageTexts, MaxPages)}

RECURSIVE JoinPages(_)
JoinPages(pages) ==
    IF pages = <<>> THEN <<>>
    ELSE (IF Head(pages) # <<>> THEN Head(pages) \o <<"\n">> ELSE <<>>)
             \o JoinPages(Tail(pages))

EndsWithPdf(path) ==
    path # <<>> /\ path[Len(path)] \in {url_to_filename(u) : u \in Hrefs} \cup {"0ther.pdf"}

\* extract_text_from_pdf with a page that has no text taken for a failure.
extract_text_from_pdf_mut(local_filepath, outcome) ==
    IF outcome.kind = "missing"
    THEN <<"Error", ": PDF file not found at path:">> \o local_filepath
    ELSE IF ~EndsWithPdf(local_filepath)
    THEN <<"Error", ": File does not appear to be a PDF:">> \o local_filepath
    ELSE IF outcome.kind = "raise"
    THEN <<"Error", ": Failed to extract text from PDF">> \o local_filepath \o outcome.exc
    ELSE IF \E i \in DOMAIN outcome.value : outcome.value[i] = <<>>
    THEN <<"Error", ": Failed to extract text from PDF">> \o local_filepath
    ELSE LET text == JoinPages(outcome.value)
         IN  IF text = <<>>
             THEN <<"Warning", ": No text could be extracted from PDF:">> \o local_filepath
             ELSE text

\* file_tools.py:178
extract_text_from_pdf(local_filepath, outcome) ==
    IF outcome.kind = "missing"
    THEN <<"Error", ": PDF file not found at path:">> \o local_filepath
    ELSE IF ~EndsWithPdf(local_filepath)
    THEN <<"Error", ": File does not appear to be a PDF:">> \o local_filepath
    ELSE IF outcome.kind = "raise"
    THEN <<"Error", ": Failed to extract text from PDF">> \o local_filepath \o outcome.exc
    ELSE LET text == JoinPages(outcome.value)
         IN  IF text = <<>>
             THEN <<"Warning", ": No text could be extracted from PDF:">> \o local_filepath
             ELSE text

\* download_pdf_tool.run(url) as a fan-out worker sees it: the path of the
\* cached file, an Error sentinel, or an exception.
DownloadOutcomes(url) ==
    Raises \cup
    (IF is_valid_url(url)
     THEN {Ok(LocalFilepath(url)), Ok(DownloadError(url, "due to timeout"))}
     ELSE {Ok(InvalidUrlError(url))})

\* ----------------------------------------------------------- research tools
\* research_tools.py:23  url is the company's entry of report_urls.
process_single_report_download_extract(url, download, extract) ==
    IF url = None \/ StartsWith(url, "Error") THEN <<"No valid URL found.">>
    ELSE IF download.kind = "raise"
    THEN <<"Error", "during download/extraction:">> \o download.exc
    ELSE LET local_path == download.value
         IN  IF StartsWith(local_path, "Error")
             THEN <<"Download failed:">> \o local_path
             ELSE extract_text_from_pdf(local_path, extract)


\* ------------------------------------------------------------------ state
VARIABLES
    node,       \* the node the graph engine runs next; START, END, RAISED
    state,      \* the UnifiedGraphState of the invocation
    trace,      \* the nodes executed so far, in order
    calls,      \* collaborator calls made so far in the invocation
    dl,         \* the running call of download_and_extract_reports
    sm,         \* the running call of summarize_extracted_texts
    summary_cache,  \* the files of SUMMARY_CACHE_DIR: filename -> content
    files,      \* the files of CACHE_DIR: filename -> "partial" or "complete"
    call,       \* the download_pdf calls: where each is, and what it did
    ex,         \* the extract_text_from_pdf call: its file, its pages, its result
    analysis_tasks,  \* the in-memory registry of the API server: task id -> status
    db,         \* the rows of the analysis_tasks table: task id -> row
    bg,         \* the background run of each task: where it is
    polled,     \* the last GET /analysis/{task_id}: the task id asked for and the answer
    clock,      \* CURRENT_TIMESTAMP of the database, in seconds
    queried,    \* the query_tasks call: its arguments and the rows it returned
    raised      \* the exception that left graph_app.invoke, a text; empty when none did

vars == <<node, state, trace, calls, dl, sm, summary_cache, files, call, ex,
          analysis_tasks, db, bg, polled, clock, queried, raised>>

NoItems == [c \in {} |-> <<>>]

DlIdle == [phase |-> "idle", input |-> NoItems, job |-> NoItems,
           future |-> NoItems, handled |-> {}, out |-> NoItems]

\* looked holds the entities whose task got as far as the summary cache, fault
\* those whose task met a failing file system (mkdir or the read of the file).
SmIdle == [phase |-> "idle", input |-> NoItems, chain |-> TRUE, max_workers |-> 10,
           task |-> NoItems, looked |-> {}, fault |-> {}, result |-> NoItems, out |-> NoItems]

\* A download_pdf call: existed is what os.path.exists answered at line 83,
\* after the calls that had returned the file's path when this one began, and
\* cleaned what os.path.exists answered before the os.remove of a last attempt.
CallIdle == [pc |-> "idle", url |-> "", attempt |-> 0, gets |-> 0, sleeps |-> 0,
             existed |-> FALSE, after |-> {}, cleaned |-> FALSE, result |-> <<>>]

\* No extract_text_from_pdf call is about.
ExIdle == [phase |-> "idle"]

\* The task ids uuid4 hands out, in the order it does.
TaskIds == 1..MaxTasks

\* No background run was scheduled for the task.  lost tells that the
\* database refused the latest write of the run, invoked is what the graph
\* invocation of the run gave.
NotInvoked == [kind |-> "not invoked"]
BgNone == [pc |-> "none", industry |-> <<>>, lost |-> FALSE, invoked |-> NotInvoked]

\* No query_tasks call is about.
QueryIdle == [phase |-> "idle"]

Init ==
    /\ node = "START"
    /\ state = EmptyUpdate
    /\ trace = <<>>
    /\ calls = 0
    /\ dl = DlIdle
    /\ sm = SmIdle
    /\ summary_cache = NoItems
    /\ files = NoItems
    /\ call = [p \in 1..MaxCalls |-> CallIdle]
    /\ ex = ExIdle
    /\ analysis_tasks = NoItems
    /\ db = NoItems
    /\ bg = [task_id \in TaskIds |-> BgNone]
    /\ polled = [task_id |-> 0, status |-> "never"]
    /\ clock = 0
    /\ queried = QueryIdle
    /\ raised = <<>>

\* --------------------------------- download_and_extract_reports (fan-out)
MAX_WORKERS == 10

\* research_tools.py:61-64  the pool is created and every job is submitted.
DlBegin(report_urls) ==
    [phase |-> "running", input |-> report_urls,
     job |-> [c \in DOMAIN report_urls |-> "queued"],
     future |-> NoItems, handled |-> {}, out |-> NoItems]

DlRunning == {c \in DOMAIN dl.job : dl.job[c] = "running"}

\* A pool thread takes a queued job: at most max_workers threads exist.
WorkerStart(c) ==
    /\ dl.phase = "running"
    /\ c \in DOMAIN dl.job /\ dl.job[c] = "queued"
    /\ Cardinality(DlRunning) < MAX_WORKERS
    /\ dl' = [dl EXCEPT !.job[c] = "running"]
    /\ UNCHANGED <<node, state, trace, calls, sm, summary_cache, files, call, ex, analysis_tasks, db, bg, polled, clock, queried, raised>>

\* What one run of _process_single_report_download_extract can return for a
\* URL entry, with the number of collaborator calls (download, extraction) made.
WorkerResults(url) ==
    IF url = None \/ StartsWith(url, "Error")
    THEN {[text |-> process_single_report_download_extract(url, Ok(<<>>), Ok(<<>>)),
           ncalls |-> 0]}
    ELSE {[text |-> process_single_report_download_extract(url, download, extract),
           ncalls |-> IF download.kind = "raise" \/ StartsWith(download.value, "Error")
                      THEN 1 ELSE 2] :
             download \in DownloadOutcomes(url[1]), extract \in ExtractOutcomes}

\* research_tools.py:23-45 run by a pool thread to its end.
WorkerFinish(c) ==
    /\ dl.phase = "running"
    /\ c \in DOMAIN dl.job /\ dl.job[c] = "running"
    /\ \E r \in WorkerResults(dl.input[c]) :
         /\ dl' = [dl EXCEPT
               !.job[c] = "done",
               !.future = [k \in DOMAIN dl.future \cup {c} |->
                   IF k = c THEN r.text ELSE dl.future[k]]]
         /\ calls' = calls + r.ncalls
    /\ UNCHANGED <<node, state, trace, sm, summary_cache, files, call, ex, analysis_tasks, db, bg, polled, clock, queried, raised>>

\* DlMerge with a failed job's result written over every entry.
DlMerge_mut(out, company_name, result) ==
    [k \in DOMAIN out \cup {company_name} |->
        IF k = company_name \/ StartsWith(result, "Error") THEN result ELSE out[k]]

\* research_tools.py:67-77  the entry written for a finished future.
DlMerge(out, company_name, result) ==
    [k \in DOMAIN out \cup {company_name} |->
        IF k = company_name THEN result ELSE out[k]]

\* research_tools.py:66  as_completed hands over a finished future.
DlCollect(c) ==
    /\ dl.phase = "running"
    /\ c \in DOMAIN dl.future /\ c \notin dl.handled
    /\ dl' = [dl EXCEPT !.handled = @ \cup {c},
                        !.out = DlMerge(dl.out, c, dl.future[c])]
    /\ UNCHANGED <<node, state, trace, calls, sm, summary_cache, files, call, ex, analysis_tasks, db, bg, polled, clock, queried, raised>>

\* research_tools.py:79-80  every future was handed over: the pool shuts down.
DlReturn ==
    /\ dl.phase = "running"
    /\ dl.handled = DOMAIN dl.job
    /\ dl' = [dl EXCEPT !.phase = "returned"]
    /\ UNCHANGED <<node, state, trace, calls, sm, summary_cache, files, call, ex, analysis_tasks, db, bg, polled, clock, queried, raised>>

\* ------------------------------------ summarize_extracted_texts (fan-out)
LowerTok(tok) ==
    CASE tok = "A" -> "a"
      [] tok = "B" -> "b"
      [] tok = " " -> "_"
      [] OTHER -> tok

\* research_tools.py:95  f"{company.replace(' ', '_').lower()}_summary.txt"
CacheFilename(company) ==
    [i \in DOMAIN company |-> LowerTok(company[i])] \o <<"_summary.txt">>

\* The skip test without the case of a Warning.
SkipsSummary_mut(text) ==
    \/ text = None
    \/ StartsWith(text, "Error")
    \/ text = <<"No valid URL found.">>
    \/ Strip(text) = <<>>

\* research_tools.py:85-91
SkipsSummary(text) ==
    \/ text = None
    \/ StartsWith(text, "Error")
    \/ StartsWith(text, "Warning")
    \/ text = <<"No valid URL found.">>
    \/ Strip(text) = <<>>

Skipped == <<"Skipped", "due to previous error or empty text.">>

\* summarize_chain.ainvoke(...).get("output_text", "")
ChainOutcomes == Raises \cup {Ok(<<>>), Ok(<<"s1">>), Ok(<<"s2">>)}

\* research_tools.py:168-177  the tasks are created, or no chain was given.
SmBegin(extracted_texts, chain, max_workers) ==
    IF ~chain
    THEN [phase |-> "returned", input |-> extracted_texts, chain |-> chain,
          max_workers |-> max_workers, task |-> NoItems, looked |-> {}, fault |-> {},
          result |-> NoItems,
          out |-> [c \in DOMAIN extracted_texts |->
                      <<"Error", ": Summarization chain not provided.">>]]
    ELSE [phase |-> "running", input |-> extracted_texts, chain |-> chain,
          max_workers |-> max_workers,
          task |-> [c \in DOMAIN extracted_texts |-> "pending"],
          looked |-> {}, fault |-> {}, result |-> NoItems, out |-> NoItems]

SetResult(c, r) ==
    [sm EXCEPT !.task[c] = "done",
               !.result = [k \in DOMAIN sm.result \cup {c} |->
                              IF k = c THEN r ELSE sm.result[k]]]

\* TaskStart without the read of the summary cache.
TaskStart_mut(c) ==
    /\ sm.phase = "running"
    /\ c \in DOMAIN sm.task /\ sm.task[c] = "pending"
    /\ LET text == sm.input[c]
           file == CacheFilename(c)
       IN  IF SkipsSummary(text)
           THEN sm' = SetResult(c, Ok(Skipped)) /\ calls' = calls
           ELSE \/ \E e \in Exceptions :
                     /\ sm' = [SetResult(c, [kind |-> "raise", exc |-> e]) EXCEPT
                                  !.fault = @ \cup {c}]
                     /\ calls' = calls
                \/ /\ sm' = [sm EXCEPT !.task[c] = "awaiting", !.looked = @ \cup {c}]
                   /\ calls' = calls + 1
    /\ UNCHANGED <<node, state, trace, dl, summary_cache, files, call, ex, analysis_tasks, db, bg, polled, clock, queried, raised>>

\* research_tools.py:85-118  _process_single_summary up to its await: the text
\* is skipped, mkdir raises, the cached summary is read, or the chain is invoked
\* because no file is cached or the read of the cached file failed.
TaskStart(c) ==
    /\ sm.phase = "running"
    /\ c \in DOMAIN sm.task /\ sm.task[c] = "pending"
    /\ LET text == sm.input[c]
           file == CacheFilename(c)
       IN  IF SkipsSummary(text)
           THEN sm' = SetResult(c, Ok(Skipped)) /\ calls' = calls
           ELSE \/ \E e \in Exceptions :
                     /\ sm' = [SetResult(c, [kind |-> "raise", exc |-> e]) EXCEPT
                                  !.fault = @ \cup {c}]
                     /\ calls' = calls
                \/ /\ file \in DOMAIN summary_cache
                   /\ sm' = [SetResult(c, Ok(summary_cache[file])) EXCEPT
                                !.looked = @ \cup {c}]
                   /\ calls' = calls
                \/ /\ file \in DOMAIN summary_cache
                   /\ sm' = [sm EXCEPT !.task[c] = "awaiting", !.looked = @ \cup {c},
                                       !.fault = @ \cup {c}]
                   /\ calls' = calls + 1
                \/ /\ file \notin DOMAIN summary_cache
                   /\ sm' = [sm EXCEPT !.task[c] = "awaiting", !.looked = @ \cup {c}]
                   /\ calls' = calls + 1
    /\ UNCHANGED <<node, state, trace, dl, summary_cache, files, call, ex, analysis_tasks, db, bg, polled, clock, queried, raised>>

\* research_tools.py:119-152  the chain answered: the summary is written to the
\* cache (a failed write is only logged) and returned.
TaskResume(c) ==
    /\ sm.phase = "running"
    /\ c \in DOMAIN sm.task /\ sm.task[c] = "awaiting"
    /\ \E outcome \in ChainOutcomes :
         IF outcome.kind = "raise"
         THEN /\ sm' = SetResult(c, Ok(<<"Error", "during summarization:">> \o outcome.exc))
              /\ UNCHANGED summary_cache
         ELSE IF outcome.value = <<>>
         THEN /\ sm' = SetResult(c, Ok(<<"Error", ": Summarization resulted in empty output.">>))
              /\ UNCHANGED summary_cache
         ELSE /\ sm' = SetResult(c, Ok(outcome.value))
              /\ \/ summary_cache' =
                        [f \in DOMAIN summary_cache \cup {CacheFilename(c)} |->
                            IF f = CacheFilename(c) THEN outcome.value
                            ELSE summary_cache[f]]
                 \/ UNCHANGED summary_cache
    /\ UNCHANGED <<node, state, trace, calls, dl, files, call, ex, analysis_tasks, db, bg, polled, clock, queried, raised>>

\* research_tools.py:182-193  the entry of one company in the returned mapping.
SmEntry(result_or_exception) ==
    IF result_or_exception.kind = "raise"
    THEN <<"Error", "retrieving summarization result:">> \o result_or_exception.exc
    ELSE result_or_exception.value

\* SmMerge without the entries whose task raised.
SmMerge_mut(input, results) ==
    [c \in {k \in DOMAIN input : results[k].kind # "raise"} |-> SmEntry(results[c])]

\* research_tools.py:182  for i, company in enumerate(extracted_texts.keys())
SmMerge(input, results) == [c \in DOMAIN input |-> SmEntry(results[c])]

\* research_tools.py:180-196  gather returned: the results are merged.
SmReturn ==
    /\ sm.phase = "running"
    /\ \A c \in DOMAIN sm.task : sm.task[c] = "done"
    /\ sm' = [sm EXCEPT !.phase = "returned", !.out = SmMerge(sm.input, sm.result)]
    /\ UNCHANGED <<node, state, trace, calls, dl, summary_cache, files, call, ex, analysis_tasks, db, bg, polled, clock, queried, raised>>

\* ------------------------------------------------------- the graph engine
Msgs == {[role |-> "human", content |-> <<"hi">>],
         [role |-> "system", content |-> <<"sys">>]}

\* The inputs of an invocation: industry and input_query are each left out,
\* empty or a text; the history is a list of messages.
Absent == <<"<absent>">>
Request(industry, input_query, messages) ==
    [k \in {"messages"} \cup (IF industry = Absent THEN {} ELSE {"industry"})
                        \cup (IF input_query = Absent THEN {} ELSE {"input_query"}) |->
        IF k = "messages" THEN messages
        ELSE IF k = "industry" THEN industry ELSE input_query]

\* main.py:55 and api_server.py:111 invoke with the industry alone, main.py:66
\* and api_server.py:177 with the query and the conversation: a history comes
\* without an industry.
Requests ==
    UNION {{Request(i, q, m) : m \in IF i = Absent THEN SeqsUpTo(Msgs, MaxHistory)
                                                    ELSE {<<>>}} :
           i \in {Absent, <<>>, <<"automotive">>}, q \in {Absent, <<>>, <<"q">>}}

\* graph_app.invoke(inputs): the entry point is route_request (line 456).
Invoke ==
    /\ node = "START" /\ dl.phase = "idle" /\ sm.phase = "idle"
    /\ \E inputs \in Requests : state' = inputs
    /\ node' = "route_request"
    /\ UNCHANGED <<trace, calls, dl, sm, summary_cache, files, call, ex, analysis_tasks, db, bg, polled, clock, queried, raised>>

\* graph_builder.py:461-469
RouteTarget(s) ==
    CASE decide_route(s) = "basic_agent_path" -> "run_basic_agent"
      [] decide_route(s) = "research_path" -> "identify_companies"
      [] OTHER -> "handle_error"

\* The conditional edge without the test of error_message.
ResearchTarget_mut(s, next) == next

\* graph_builder.py:472-497  the conditional edge after a research node.
ResearchTarget(s, next) ==
    IF route_research_step(s) = "continue" THEN next ELSE "handle_error"

\* A node ran: its update is applied and the edge taken, or its exception
\* leaves the engine.  target is the node the edge leads to from the new state.
After(result) == ApplyUpdate(state, result.update)

Finish(n, result, target) ==
    /\ trace' = Append(trace, n)
    /\ IF result.kind = "raise"
       THEN /\ node' = "RAISED"
            /\ state' = state
            /\ raised' = result.exc
       ELSE /\ state' = After(result)
            /\ node' = target
            /\ raised' = raised

RouteRequest ==
    /\ node = "route_request"
    /\ Finish("route_request", route_request(state),
              RouteTarget(After(route_request(state))))
    /\ UNCHANGED <<calls, dl, sm, summary_cache, files, call, ex, analysis_tasks, db, bg, polled, clock, queried>>

\* RunBasicAgent with the conditional edge of the research nodes.
RunBasicAgent_mut ==
    /\ node = "run_basic_agent"
    /\ \E outcome \in AgentOutcomes :
         LET result == run_basic_agent(state, outcome)
         IN  Finish("run_basic_agent", result, ResearchTarget(After(result), "END"))
    /\ calls' = calls + 1
    /\ UNCHANGED <<dl, sm, summary_cache, files, call, ex, analysis_tasks, db, bg, polled, clock, queried>>

RunBasicAgent ==
    /\ node = "run_basic_agent"
    /\ \E outcome \in AgentOutcomes :
         Finish("run_basic_agent", run_basic_agent(state, outcome), "END")
    /\ calls' = calls + 1
    /\ UNCHANGED <<dl, sm, summary_cache, files, call, ex, analysis_tasks, db, bg, polled, clock, queried>>

IdentifyCompanies ==
    /\ node = "identify_companies"
    /\ \E outcome \in LlmOutcomes :
         LET result == identify_companies(state, outcome)
         IN  Finish("identify_companies", result,
                    ResearchTarget(After(result), "search_for_reports"))
    /\ calls' = calls + (IF Truthy(state, "error_message") THEN 0 ELSE 1)
    /\ UNCHANGED <<dl, sm, summary_cache, files, call, ex, analysis_tasks, db, bg, polled, clock, queried>>

\* The companies search_for_reports issues a search for.
ToSearch(s) ==
    IF Truthy(s, "error_message") \/ "companies" \notin DOMAIN s THEN {}
    ELSE Range(s["companies"]) \ DOMAIN Get(s, "report_urls", EmptyDict).items

SearchForReports ==
    /\ node = "search_for_reports"
    /\ \E outcomes \in [ToSearch(state) -> SearchOutcomes] :
         LET result == search_for_reports(state, outcomes)
         IN  Finish("search_for_reports", result,
                    ResearchTarget(After(result), "download_and_extract"))
    /\ calls' = calls + Cardinality(ToSearch(state))
    /\ UNCHANGED <<dl, sm, summary_cache, files, call, ex, analysis_tasks, db, bg, polled, clock, queried>>


\* graph_builder.py:337  called is what download_and_extract_reports did.
download_and_extract(s, called) ==
    IF Truthy(s, "error_message") THEN Returned(EmptyUpdate)
    ELSE IF "report_urls" \notin DOMAIN s \/ DOMAIN s["report_urls"].items = {}
    THEN Returned([extracted_texts |-> EmptyDict])
    ELSE IF called.kind = "raise"
    THEN Returned([extracted_texts |-> PyDict([c \in DOMAIN s["report_urls"].items |->
                       <<"Error", "in download/extract step:">> \o called.exc]),
                   error_message |-> <<"Failed during download/extraction:">> \o called.exc])
    ELSE Returned([extracted_texts |-> PyDict(called.value)])

\* Whether download_and_extract gets as far as line 349.
CallsDownload(s) ==
    /\ ~Truthy(s, "error_message")
    /\ "report_urls" \in DOMAIN s /\ DOMAIN s["report_urls"].items # {}

\* graph_builder.py:349  the node calls download_and_extract_reports.
DownloadAndExtractCall ==
    /\ node = "download_and_extract" /\ dl.phase = "idle"
    /\ CallsDownload(state)
    /\ dl' = DlBegin(state["report_urls"].items)
    /\ UNCHANGED <<node, state, trace, calls, sm, summary_cache, files, call, ex, analysis_tasks, db, bg, polled, clock, queried, raised>>

\* What the call gave the node: its mapping, or the exception of a pool that
\* could not start its threads.
DownloadCalled ==
    IF ~CallsDownload(state) THEN {Ok(NoItems)}
    ELSE IF dl.phase = "returned" THEN {Ok(dl.out)}
    ELSE IF dl.phase = "idle" THEN Raises
    ELSE {}

DownloadAndExtract ==
    /\ node = "download_and_extract"
    /\ \E called \in DownloadCalled :
         LET result == download_and_extract(state, called)
         IN  Finish("download_and_extract", result,
                    ResearchTarget(After(result), "summarize_reports"))
    /\ dl' = DlIdle
    /\ UNCHANGED <<calls, sm, summary_cache, files, call, ex, analysis_tasks, db, bg, polled, clock, queried>>

\* graph_builder.py:359  summarize_extracted_texts is an async function: the
\* call at line 371 returns its coroutine, which the node stores unawaited.
summarize_reports(s) ==
    IF Truthy(s, "error_message") THEN Returned(EmptyUpdate)
    ELSE IF "extracted_texts" \notin DOMAIN s \/ DOMAIN s["extracted_texts"].items = {}
    THEN Returned([individual_summaries |-> EmptyDict])
    ELSE Returned([individual_summaries |-> Coroutine(s["extracted_texts"].items)])

SummarizeReports ==
    /\ node = "summarize_reports"
    /\ LET result == summarize_reports(state)
       IN  Finish("summarize_reports", result,
                  ResearchTarget(After(result), "synthesize_trends"))
    /\ UNCHANGED <<calls, dl, sm, summary_cache, files, call, ex, analysis_tasks, db, bg, polled, clock, queried>>

\* Whether synthesize_trends gets as far as the completion call at line 408.
CallsSynthesis(s) ==
    /\ ~Truthy(s, "error_message")
    /\ {"industry", "individual_summaries", "report_urls"} \subseteq DOMAIN s
    /\ s["individual_summaries"].kind = "dict"
    /\ ValidSummaries(s["individual_summaries"].items) # {}

SynthesizeTrends ==
    /\ node = "synthesize_trends"
    /\ \E outcome \in SynthesisOutcomes :
         LET result == synthesize_trends(state, outcome)
         IN  Finish("synthesize_trends", result, ResearchTarget(After(result), "END"))
    /\ calls' = calls + (IF CallsSynthesis(state) THEN 1 ELSE 0)
    /\ UNCHANGED <<dl, sm, summary_cache, files, call, ex, analysis_tasks, db, bg, polled, clock, queried>>

HandleError ==
    /\ node = "handle_error"
    /\ Finish("handle_error", handle_error(state), "END")
    /\ UNCHANGED <<calls, dl, sm, summary_cache, files, call, ex, analysis_tasks, db, bg, polled, clock, queried>>

Next ==
    \/ Invoke
    \/ RouteRequest
    \/ RunBasicAgent
    \/ IdentifyCompanies
    \/ SearchForReports
    \/ DownloadAndExtractCall
    \/ \E c \in DOMAIN dl.job : WorkerStart(c)
    \/ \E c \in DOMAIN dl.job : WorkerFinish(c)
    \/ \E c \in DOMAIN dl.job : DlCollect(c)
    \/ DlReturn
    \/ DownloadAndExtract
    \/ SummarizeReports
    \/ SynthesizeTrends
    \/ HandleError

Spec == Init /\ [][Next]_vars


\* ------------------------------------------ the research nodes, each called
\* with any state, as the engine calls it: with or without an error_message,
\* and with the fields the earlier nodes have or have not written.
NodeStates ==
    LET s0 == Request(<<"automotive">>, Absent, <<>>)
        s1 == ApplyUpdate(s0, [companies |-> <<<<"A">>>>, report_urls |-> EmptyDict,
                               extracted_texts |-> EmptyDict,
                               individual_summaries |-> EmptyDict])
        s2 == ApplyUpdate(s1, [report_urls |->
                               PyDict([c \in {<<"A">>} |-> <<"https://x.org/a.pdf">>])])
        s3 == ApplyUpdate(s2, [extracted_texts |->
                               PyDict([c \in {<<"A">>} |-> <<"t", "\n">>])])
        s4 == ApplyUpdate(s3, [individual_summaries |->
                               PyDict([c \in {<<"A">>} |-> <<"s1">>])])
    IN  {s0, s1, s2, s3, s4}
        \cup {ApplyUpdate(s, [error_message |-> e]) :
                 s \in {s0, s1, s2, s3, s4}, e \in {<<>>, <<"failed">>}}

\* graph_builder.py:448-452  the five nodes of the research path.
ResearchNodes ==
    {"identify_companies", "search_for_reports", "download_and_extract",
     "summarize_reports", "synthesize_trends"}

CallNode ==
    /\ node = "START" /\ trace = <<>> /\ dl.phase = "idle" /\ sm.phase = "idle"
    /\ \E s \in NodeStates, n \in ResearchNodes : state' = s /\ node' = n
    /\ UNCHANGED <<trace, calls, dl, sm, summary_cache, files, call, ex, analysis_tasks, db, bg, polled, clock, queried, raised>>

NextNodes ==
    \/ CallNode
    \/ IdentifyCompanies
    \/ SearchForReports
    \/ DownloadAndExtractCall
    \/ \E c \in DOMAIN dl.job : WorkerStart(c)
    \/ \E c \in DOMAIN dl.job : WorkerFinish(c)
    \/ \E c \in DOMAIN dl.job : DlCollect(c)
    \/ DlReturn
    \/ DownloadAndExtract
    \/ SummarizeReports
    \/ SynthesizeTrends
    \/ HandleError

SpecNodes == Init /\ [][NextNodes]_vars

\* ------------------------------------------- the fan-out functions, called
\* directly with any mapping of the entities to URL entries or texts.
\* Two entities whose names differ only in case: distinct keys of a mapping, one
\* summary cache file (research_tools.py:95).
Names == {<<"A">>, <<"a">>}

UrlEntries == {None, <<"https://x.org/a.pdf">>, <<"Error", "during search:", "boom">>}

TextEntries ==
    {None, <<>>, <<"t", "\n">>, <<" ", "\n">>, <<"No valid URL found.">>,
     <<"Error", ": Failed to extract text from PDF">>,
     <<"Download failed:", "Error", ": Failed to download PDF from">>,
     <<"Warning", ": No text could be extracted from PDF:">>}

Mappings(values) == UNION {[S -> values] : S \in SUBSET Names}

CallDownloadAndExtractReports ==
    /\ node = "START" /\ dl.phase = "idle" /\ sm.phase = "idle"
    /\ \E report_urls \in Mappings(UrlEntries) : dl' = DlBegin(report_urls)
    /\ UNCHANGED <<node, state, trace, calls, sm, summary_cache, files, call, ex, analysis_tasks, db, bg, polled, clock, queried, raised>>

CallSummarizeExtractedTexts ==
    /\ node = "START" /\ dl.phase = "idle" /\ sm.phase = "idle"
    /\ \E extracted_texts \in Mappings(TextEntries), chain \in BOOLEAN,
          max_workers \in {1, MAX_WORKERS} :
         sm' = SmBegin(extracted_texts, chain, max_workers)
    /\ UNCHANGED <<node, state, trace, calls, dl, summary_cache, files, call, ex, analysis_tasks, db, bg, polled, clock, queried, raised>>

\* The caller has its mapping; the next call starts from scratch.
CallReturned ==
    /\ node = "START"
    /\ dl.phase = "returned" \/ sm.phase = "returned"
    /\ dl' = DlIdle /\ sm' = SmIdle /\ calls' = 0
    /\ UNCHANGED <<node, state, trace, summary_cache, files, call, ex, analysis_tasks, db, bg, polled, clock, queried, raised>>

NextFanOut ==
    \/ CallDownloadAndExtractReports
    \/ \E c \in DOMAIN dl.job : WorkerStart(c)
    \/ \E c \in DOMAIN dl.job : WorkerFinish(c)
    \/ \E c \in DOMAIN dl.job : DlCollect(c)
    \/ DlReturn
    \/ CallSummarizeExtractedTexts
    \/ \E c \in DOMAIN sm.task : TaskStart(c)
    \/ \E c \in DOMAIN sm.task : TaskResume(c)
    \/ SmReturn
    \/ CallReturned

SpecFanOut == Init /\ [][NextFanOut]_vars


\* ------------------------------------------------------------ download_pdf
RETRY_DOWNLOAD_DELAY_SECONDS == 10

DownloadUrls == {"https://x.org/a.pdf", "ftp://x.org/a.pdf", "http://"}

Exists(fs, url) == url_to_filename(url) \in DOMAIN fs

WriteFile(fs, url, content) ==
    [f \in DOMAIN fs \cup {url_to_filename(url)} |->
        IF f = url_to_filename(url) THEN content ELSE fs[f]]

\* file_tools.py:129-133  os.remove(local_filepath) when the file exists.
RemoveFile(fs, url) == [f \in DOMAIN fs \ {url_to_filename(url)} |-> fs[f]]

\* The calls that have returned the path of the file for url.
Succeeded(url) ==
    {q \in DOMAIN call : call[q].pc = "done" /\ call[q].url = url
                         /\ call[q].result = LocalFilepath(url)}

\* DownloadPdfStart without the cache lookup.
DownloadPdfStart_mut(p) ==
    /\ node = "START" /\ call[p].pc = "idle"
    /\ \E url \in DownloadUrls :
         LET c == [call[p] EXCEPT !.url = url, !.after = Succeeded(url),
                                  !.existed = is_valid_url(url) /\ Exists(files, url)]
         IN  IF ~is_valid_url(url)
             THEN call' = [call EXCEPT ![p] =
                      [c EXCEPT !.pc = "done", !.result = InvalidUrlError(url)]]
             ELSE call' = [call EXCEPT ![p] = [c EXCEPT !.pc = "get"]]
    /\ UNCHANGED <<node, state, trace, calls, dl, sm, summary_cache, files, ex, analysis_tasks, db, bg, polled, clock, queried, raised>>

\* file_tools.py:72-87  the URL is validated and the cache looked up.
DownloadPdfStart(p) ==
    /\ node = "START" /\ call[p].pc = "idle"
    /\ \E url \in DownloadUrls :
         LET c == [call[p] EXCEPT !.url = url, !.after = Succeeded(url),
                                  !.existed = is_valid_url(url) /\ Exists(files, url)]
         IN  IF ~is_valid_url(url)
             THEN call' = [call EXCEPT ![p] =
                      [c EXCEPT !.pc = "done", !.result = InvalidUrlError(url)]]
             ELSE IF Exists(files, url)
             THEN call' = [call EXCEPT ![p] =
                      [c EXCEPT !.pc = "done", !.result = LocalFilepath(url)]]
             ELSE call' = [call EXCEPT ![p] = [c EXCEPT !.pc = "get"]]
    /\ UNCHANGED <<node, state, trace, calls, dl, sm, summary_cache, files, ex, analysis_tasks, db, bg, polled, clock, queried, raised>>

FailureKinds == {"timeout", "request", "unexpected"}

\* file_tools.py:134-171  the Error sentinel of each except clause.
FailureText(url, kind) ==
    CASE kind = "timeout" -> DownloadError(url, "due to timeout")
      [] kind = "request" -> DownloadError(url, "Reason")
      [] OTHER ->
           <<"Error", ": An unexpected error occurred during download from", url,
             "after 3 attempts", "Details">>

\* AttemptFailed without the os.remove of the last attempt.
AttemptFailed_mut(p, c, kind) ==
    IF c.attempt < MAX_DOWNLOAD_RETRIES - 1
    THEN /\ call' = [call EXCEPT ![p] = [c EXCEPT !.pc = "sleep"]]
         /\ files' = files
    ELSE /\ call' = [call EXCEPT ![p] =
                 [c EXCEPT !.pc = "done", !.result = FailureText(c.url, kind),
                           !.cleaned = Exists(files, c.url)]]
         /\ files' = files

\* file_tools.py:121-171  an attempt failed: another attempt follows the
\* delay, or after the last one the file is removed and the error returned.
\* c is the call's record as the attempt leaves it.
AttemptFailed(p, c, kind) ==
    IF c.attempt < MAX_DOWNLOAD_RETRIES - 1
    THEN /\ call' = [call EXCEPT ![p] = [c EXCEPT !.pc = "sleep"]]
         /\ files' = files
    ELSE /\ call' = [call EXCEPT ![p] =
                 [c EXCEPT !.pc = "done", !.result = FailureText(c.url, kind),
                           !.cleaned = Exists(files, c.url)]]
         /\ files' = RemoveFile(files, c.url)

\* file_tools.py:99-114  requests.get and raise_for_status; on a response the
\* file is opened for writing, which creates or truncates it.
DownloadPdfGet(p) ==
    /\ call[p].pc = "get"
    /\ LET c == [call[p] EXCEPT !.gets = @ + 1]
       IN  \/ /\ call' = [call EXCEPT ![p] = [c EXCEPT !.pc = "write"]]
              /\ files' = WriteFile(files, c.url, "partial")
           \/ \E kind \in FailureKinds : AttemptFailed(p, c, kind)
    /\ UNCHANGED <<node, state, trace, calls, dl, sm, summary_cache, ex, analysis_tasks, db, bg, polled, clock, queried, raised>>

\* file_tools.py:115-119  the chunks are written: to the end, or until the
\* stream fails and leaves what was written.
DownloadPdfWrite(p) ==
    /\ call[p].pc = "write"
    /\ \/ /\ call' = [call EXCEPT ![p].pc = "done",
                                  ![p].result = LocalFilepath(call[p].url)]
          /\ files' = WriteFile(files, call[p].url, "complete")
       \/ \E kind \in FailureKinds : AttemptFailed(p, call[p], kind)
    /\ UNCHANGED <<node, state, trace, calls, dl, sm, summary_cache, ex, analysis_tasks, db, bg, polled, clock, queried, raised>>

\* DownloadPdfSleep without the loop's step to the next attempt.
DownloadPdfSleep_mut(p) ==
    /\ call[p].pc = "sleep"
    /\ call' = [call EXCEPT ![p].pc = "get", ![p].sleeps = @ + 1]
    /\ UNCHANGED <<node, state, trace, calls, dl, sm, summary_cache, files, ex, analysis_tasks, db, bg, polled, clock, queried, raised>>

\* file_tools.py:125  time.sleep(RETRY_DOWNLOAD_DELAY_SECONDS), then the next attempt.
DownloadPdfSleep(p) ==
    /\ call[p].pc = "sleep"
    /\ call' = [call EXCEPT ![p].pc = "get", ![p].attempt = @ + 1, ![p].sleeps = @ + 1]
    /\ UNCHANGED <<node, state, trace, calls, dl, sm, summary_cache, files, ex, analysis_tasks, db, bg, polled, clock, queried, raised>>

NextDownload ==
    \/ \E p \in DOMAIN call : DownloadPdfStart(p)
    \/ \E p \in DOMAIN call : DownloadPdfGet(p)
    \/ \E p \in DOMAIN call : DownloadPdfWrite(p)
    \/ \E p \in DOMAIN call : DownloadPdfSleep(p)

SpecDownload == Init /\ [][NextDownload]_vars


\* --------------------------------------- extract_text_from_pdf, called
\* directly with any path and any document.
ExtractPaths == {LocalFilepath("https://x.org/a.pdf"), <<"pdf_cache/", "notes.txt">>}

\* What the reader finds at the path: no file, a document it cannot read, or
\* the texts of the pages.
ExtractDocuments ==
    {[kind |-> "missing"]} \cup Raises \cup {Ok(p) : p \in SeqsUpTo(PageTexts, MaxDocPages)}

\* file_tools.py:178  extract_text_from_pdf(local_filepath)
ExtractCall ==
    /\ node = "START" /\ ex.phase = "idle"
    /\ \E local_filepath \in ExtractPaths, outcome \in ExtractDocuments :
         ex' = [phase |-> "returned", local_filepath |-> local_filepath,
                outcome |-> outcome,
                result |-> extract_text_from_pdf(local_filepath, outcome)]
    /\ UNCHANGED <<node, state, trace, calls, dl, sm, summary_cache, files, call, analysis_tasks, db, bg, polled, clock, queried, raised>>

\* The caller has the text; the next call starts from scratch.
ExtractReturned ==
    /\ node = "START" /\ ex.phase = "returned"
    /\ ex' = ExIdle
    /\ UNCHANGED <<node, state, trace, calls, dl, sm, summary_cache, files, call, analysis_tasks, db, bg, polled, clock, queried, raised>>

NextExtract == ExtractCall \/ ExtractReturned

SpecExtract == Init /\ [][NextExtract]_vars


\* ------------------------------------------------------------ the API server
Industries == {<<"Tech">>}

\* api_server.py:79  AnalysisTaskStatus(task_id, status, result=None)
AnalysisTaskStatus(task_id, status, result) ==
    [task_id |-> task_id, status |-> status, result |-> result]

Put(f, k, v) == [x \in DOMAIN f \cup {k} |-> IF x = k THEN v ELSE f[x]]

\* sqlite3 executes the statements, or raises sqlite3.Error.
SqliteOutcomes == {"ok", "error"}

\* log_task_status as a plain INSERT OR REPLACE of the values given.
log_task_status_mut(rows, task_id, industry, status, result_summary, start_time, duration_seconds, sqlite) ==
    IF sqlite = "error" THEN rows
    ELSE Put(rows, task_id,
             [task_id |-> task_id, industry |-> industry, status |-> status,
              result_summary |-> result_summary, start_time |-> start_time,
              duration_seconds |-> duration_seconds, timestamp |-> clock])

\* database.py:39  log_task_status: the rows of the table after the call.
log_task_status(rows, task_id, industry, status, result_summary, start_time, duration_seconds, sqlite) ==
    IF sqlite = "error" THEN rows
    ELSE LET final_start_time ==
                 IF task_id \in DOMAIN rows /\ rows[task_id].start_time # None
                    /\ start_time = None
                 THEN rows[task_id].start_time ELSE start_time
         IN  Put(rows, task_id,
                 [task_id |-> task_id, industry |-> industry, status |-> status,
                  result_summary |-> result_summary, start_time |-> final_start_time,
                  duration_seconds |-> duration_seconds, timestamp |-> clock])

\* api_server.py:212  POST /analyze: the registry gets the PENDING record and
\* the background run is scheduled; the response carries the task id.
submit_analysis ==
    /\ \E task_id \in TaskIds, industry \in Industries :
         /\ task_id = Cardinality(DOMAIN analysis_tasks) + 1
         /\ analysis_tasks' =
                Put(analysis_tasks, task_id, AnalysisTaskStatus(task_id, "PENDING", None))
         /\ bg' = [bg EXCEPT ![task_id] =
                      [pc |-> "scheduled", industry |-> industry, lost |-> FALSE,
                       invoked |-> NotInvoked]]
    /\ UNCHANGED <<node, state, trace, calls, dl, sm, summary_cache, files, call, ex, db, polled, clock, queried, raised>>

\* BgStart that also runs for a task whose run is over.
BgStart_mut(task_id) ==
    /\ bg[task_id].pc \in {"scheduled", "done"}
    /\ analysis_tasks' =
           Put(analysis_tasks, task_id, AnalysisTaskStatus(task_id, "RUNNING", None))
    /\ \E sqlite \in SqliteOutcomes :
         /\ db' = log_task_status(db, task_id, bg[task_id].industry, "RUNNING",
                                  None, None, None, sqlite)
         /\ bg' = [bg EXCEPT ![task_id].pc = "invoking",
                             ![task_id].lost = (sqlite = "error")]
    /\ UNCHANGED <<node, state, trace, calls, dl, sm, summary_cache, files, call, ex, polled, clock, queried, raised>>

\* api_server.py:96-111  the background run starts: RUNNING in the registry and
\* in the table, then the graph is invoked in a thread.
BgStart(task_id) ==
    /\ bg[task_id].pc = "scheduled"
    /\ analysis_tasks' =
           Put(analysis_tasks, task_id, AnalysisTaskStatus(task_id, "RUNNING", None))
    /\ \E sqlite \in SqliteOutcomes :
         /\ db' = log_task_status(db, task_id, bg[task_id].industry, "RUNNING",
                                  None, None, None, sqlite)
         /\ bg' = [bg EXCEPT ![task_id].pc = "invoking",
                             ![task_id].lost = (sqlite = "error")]
    /\ UNCHANGED <<node, state, trace, calls, dl, sm, summary_cache, files, call, ex, polled, clock, queried, raised>>

\* unified_graph_app.invoke({"industry": industry}): an exception, or a final
\* state with error_message, synthesis_result, both, an empty synthesis_result
\* or neither.
InvokeOutcomes ==
    Raises \cup
    {Ok([industry |-> <<"Tech">>, error_message |-> <<"e">>]),
     Ok([industry |-> <<"Tech">>, synthesis_result |-> <<"s">>]),
     Ok([industry |-> <<"Tech">>, error_message |-> <<"e">>, synthesis_result |-> <<"s">>]),
     Ok([industry |-> <<"Tech">>, synthesis_result |-> <<>>]),
     Ok([industry |-> <<"Tech">>])}

\* Classify that looks for the synthesis before the error.
Classify_mut(invoked) ==
    IF invoked.kind = "raise"
    THEN [status |-> "FAILED",
          result |-> <<"An unexpected error occurred:">> \o invoked.exc]
    ELSE LET final_state == invoked.value
         IN  IF Truthy(final_state, "synthesis_result")
             THEN [status |-> "COMPLETED", result |-> final_state["synthesis_result"]]
             ELSE IF Truthy(final_state, "error_message")
             THEN [status |-> "FAILED", result |-> final_state["error_message"]]
             ELSE [status |-> "UNKNOWN",
                   result |-> <<"Graph finished, but no synthesis result or error message found.">>]

\* api_server.py:113-122, 140  the status and the result of a finished run.
Classify(invoked) ==
    IF invoked.kind = "raise"
    THEN [status |-> "FAILED",
          result |-> <<"An unexpected error occurred:">> \o invoked.exc]
    ELSE LET final_state == invoked.value
         IN  IF Truthy(final_state, "error_message")
             THEN [status |-> "FAILED", result |-> final_state["error_message"]]
             ELSE IF Truthy(final_state, "synthesis_result")
             THEN [status |-> "COMPLETED", result |-> final_state["synthesis_result"]]
             ELSE [status |-> "UNKNOWN",
                   result |-> <<"Graph finished, but no synthesis result or error message found.">>]

\* BgFinish whose except branch sets the registry and does not log.
BgFinish_mut(task_id) ==
    /\ bg[task_id].pc = "invoking"
    /\ \E invoked \in InvokeOutcomes, sqlite \in SqliteOutcomes :
         LET final == Classify(invoked)
         IN  /\ analysis_tasks' = Put(analysis_tasks, task_id,
                     AnalysisTaskStatus(task_id, final.status, final.result))
             /\ db' = IF invoked.kind = "raise" THEN db
                      ELSE log_task_status(db, task_id, bg[task_id].industry,
                                           final.status, final.result, None, None, sqlite)
             /\ bg' = [bg EXCEPT ![task_id].pc = "done",
                                 ![task_id].lost = (sqlite = "error"),
                                 ![task_id].invoked = invoked]
    /\ UNCHANGED <<node, state, trace, calls, dl, sm, summary_cache, files, call, ex, polled, clock, queried, raised>>

\* BgFinish that logs the terminal status without the result.
BgFinish_mut_result(task_id) ==
    /\ bg[task_id].pc = "invoking"
    /\ \E invoked \in InvokeOutcomes, sqlite \in SqliteOutcomes :
         LET final == Classify(invoked)
         IN  /\ analysis_tasks' = Put(analysis_tasks, task_id,
                     AnalysisTaskStatus(task_id, final.status, final.result))
             /\ db' = log_task_status(db, task_id, bg[task_id].industry, final.status,
                                      None, None, None, sqlite)
             /\ bg' = [bg EXCEPT ![task_id].pc = "done",
                                 ![task_id].lost = (sqlite = "error"),
                                 ![task_id].invoked = invoked]
    /\ UNCHANGED <<node, state, trace, calls, dl, sm, summary_cache, files, call, ex, polled, clock, queried, raised>>

\* api_server.py:111-153  invoke returned or raised: the registry and the table
\* get the terminal record.
BgFinish(task_id) ==
    /\ bg[task_id].pc = "invoking"
    /\ \E invoked \in InvokeOutcomes, sqlite \in SqliteOutcomes :
         LET final == Classify(invoked)
         IN  /\ analysis_tasks' = Put(analysis_tasks, task_id,
                     AnalysisTaskStatus(task_id, final.status, final.result))
             /\ db' = log_task_status(db, task_id, bg[task_id].industry, final.status,
                                      final.result, None, None, sqlite)
             /\ bg' = [bg EXCEPT ![task_id].pc = "done",
                                 ![task_id].lost = (sqlite = "error"),
                                 ![task_id].invoked = invoked]
    /\ UNCHANGED <<node, state, trace, calls, dl, sm, summary_cache, files, call, ex, polled, clock, queried, raised>>

\* api_server.py:223  GET /analysis/{task_id}
get_analysis_status(task_id) ==
    /\ polled' = [task_id |-> task_id,
                  status |-> IF task_id \in DOMAIN analysis_tasks
                             THEN analysis_tasks[task_id].status ELSE "404"]
    /\ UNCHANGED <<node, state, trace, calls, dl, sm, summary_cache, files, call, ex, analysis_tasks, db, bg, clock, queried, raised>>

\* A second passes.
Tick ==
    /\ clock < MaxClock
    /\ clock' = clock + 1
    /\ UNCHANGED <<node, state, trace, calls, dl, sm, summary_cache, files, call, ex, analysis_tasks, db, bg, polled, queried, raised>>

NextServer ==
    \/ submit_analysis
    \/ \E task_id \in TaskIds : BgStart(task_id)
    \/ \E task_id \in TaskIds : BgFinish(task_id)
    \/ \E task_id \in TaskIds : get_analysis_status(task_id)

SpecServer == Init /\ [][NextServer]_vars


\* ---------------------------------------- background runs through the graph
\* api_server.py:105-111  asyncio.to_thread(unified_graph_app.invoke, inputs)
\* with inputs = {"industry": industry}; the engine runs one invocation at a
\* time here.
RunInvoke(task_id) ==
    /\ bg[task_id].pc = "invoking"
    /\ node = "START"
    /\ state' = Request(bg[task_id].industry, Absent, <<>>)
    /\ node' = "route_request"
    /\ bg' = [bg EXCEPT ![task_id].pc = "in graph"]
    /\ UNCHANGED <<trace, calls, dl, sm, summary_cache, files, call, ex, analysis_tasks, db, polled, clock, queried, raised>>

\* RunReturn without the except clause: only a final state is recorded.
RunReturn_mut(task_id) ==
    /\ bg[task_id].pc = "in graph"
    /\ node = "END"
    /\ \E sqlite \in SqliteOutcomes :
         LET read == DOMAIN state \cap {"error_message", "synthesis_result"}
             invoked == Ok([k \in read |-> state[k]])
             final == Classify(invoked)
         IN  /\ analysis_tasks' = Put(analysis_tasks, task_id,
                     AnalysisTaskStatus(task_id, final.status, final.result))
             /\ db' = log_task_status(db, task_id, bg[task_id].industry, final.status,
                                      final.result, None, None, sqlite)
             /\ bg' = [bg EXCEPT ![task_id].pc = "done",
                                 ![task_id].lost = (sqlite = "error"),
                                 ![task_id].invoked = invoked]
    /\ node' = "START" /\ state' = EmptyUpdate /\ trace' = <<>> /\ calls' = 0
    /\ dl' = DlIdle /\ sm' = SmIdle /\ raised' = <<>>
    /\ UNCHANGED <<summary_cache, files, call, ex, polled, clock, queried>>

\* api_server.py:111-153  the invocation is over: its final state (the two
\* keys lines 114-118 read), or the exception that left it, is classified and
\* recorded.
RunReturn(task_id) ==
    /\ bg[task_id].pc = "in graph"
    /\ node \in {"END", "RAISED"}
    /\ \E sqlite \in SqliteOutcomes :
         LET read == DOMAIN state \cap {"error_message", "synthesis_result"}
             invoked == IF node = "RAISED" THEN Raised(raised)
                        ELSE Ok([k \in read |-> state[k]])
             final == Classify(invoked)
         IN  /\ analysis_tasks' = Put(analysis_tasks, task_id,
                     AnalysisTaskStatus(task_id, final.status, final.result))
             /\ db' = log_task_status(db, task_id, bg[task_id].industry, final.status,
                                      final.result, None, None, sqlite)
             /\ bg' = [bg EXCEPT ![task_id].pc = "done",
                                 ![task_id].lost = (sqlite = "error"),
                                 ![task_id].invoked = invoked]
    /\ node' = "START" /\ state' = EmptyUpdate /\ trace' = <<>> /\ calls' = 0
    /\ dl' = DlIdle /\ sm' = SmIdle /\ raised' = <<>>
    /\ UNCHANGED <<summary_cache, files, call, ex, polled, clock, queried>>

\* What the scheduler owes a run: the steps of the background coroutine and of
\* the graph invocation in its thread.
RunStep ==
    \/ \E task_id \in TaskIds : BgStart(task_id)
    \/ \E task_id \in TaskIds : RunInvoke(task_id)
    \/ RouteRequest
    \/ IdentifyCompanies
    \/ SearchForReports
    \/ DownloadAndExtractCall
    \/ \E c \in DOMAIN dl.job : WorkerStart(c)
    \/ \E c \in DOMAIN dl.job : WorkerFinish(c)
    \/ \E c \in DOMAIN dl.job : DlCollect(c)
    \/ DlReturn
    \/ DownloadAndExtract
    \/ SummarizeReports
    \/ SynthesizeTrends
    \/ HandleError
    \/ \E task_id \in TaskIds : RunReturn(task_id)

NextRun ==
    \/ submit_analysis
    \/ RunStep

SpecRun == Init /\ [][NextRun]_vars /\ WF_vars(RunStep)


\* ------------------------------------------------------- the task history
\* database.py:89  limit: int = 5
DEFAULT_LIMIT == 5

\* LOWER() of SQLite, on the spellings used here.
Lower(text) ==
    [i \in DOMAIN text |->
        CASE text[i] \in {"Tech", "TECH"} -> "tech"
          [] text[i] \in {"Auto", "AUTO"} -> "auto"
          [] OTHER -> text[i]]

\* database.py:98-107  WHERE status = 'COMPLETED' [AND LOWER(industry) = LOWER(?)]
Selected(rows, industry_filter) ==
    {task_id \in DOMAIN rows :
        /\ rows[task_id].status = "COMPLETED"
        /\ (industry_filter # None /\ industry_filter # <<>>) =>
               Lower(rows[task_id].industry) = Lower(industry_filter)}

\* database.py:109  ORDER BY timestamp DESC: every order of the selected rows
\* that never puts an older row before a newer one (rows of the same second
\* come in any order).
OrderedByTimestampDesc(rows, ids) ==
    {s \in [1..Cardinality(ids) -> ids] :
        /\ \A i, j \in DOMAIN s : i # j => s[i] # s[j]
        /\ \A i, j \in DOMAIN s : i < j => rows[s[i]].timestamp >= rows[s[j]].timestamp}

\* database.py:97  SELECT task_id, industry, status, result_summary, timestamp
Selection(row) ==
    [task_id |-> row.task_id, industry |-> row.industry, status |-> row.status,
     result_summary |-> row.result_summary, timestamp |-> row.timestamp]

\* query_tasks that compares the industry with the filter as spelled.
query_tasks_mut(rows, limit, industry_filter, sqlite) ==
    IF sqlite = "error" THEN {<<>>}
    ELSE LET ids == {task_id \in DOMAIN rows :
                        /\ rows[task_id].status = "COMPLETED"
                        /\ (industry_filter # None /\ industry_filter # <<>>) =>
                               rows[task_id].industry = industry_filter}
         IN  {[i \in 1..(IF limit < Len(s) THEN limit ELSE Len(s)) |-> Selection(rows[s[i]])] :
                 s \in OrderedByTimestampDesc(rows, ids)}

\* database.py:89-122  the lists query_tasks can return; [] on a database error.
query_tasks(rows, limit, industry_filter, sqlite) ==
    IF sqlite = "error" THEN {<<>>}
    ELSE {[i \in 1..(IF limit < Len(s) THEN limit ELSE Len(s)) |-> Selection(rows[s[i]])] :
             s \in OrderedByTimestampDesc(rows, Selected(rows, industry_filter))}

\* log_task_status(task_id, industry, status, result_summary): a task is
\* logged with its industry, a status and the result that goes with it.
LogTask ==
    /\ queried.phase = "idle"
    /\ \E task_id \in 1..MaxLogged, industry \in {<<"Tech">>, <<"auto">>},
          status \in {"COMPLETED", "FAILED"}, sqlite \in SqliteOutcomes :
         db' = log_task_status(db, task_id, industry, status,
                               IF status = "COMPLETED" THEN <<"trends">> ELSE <<"e">>,
                               None, None, sqlite)
    /\ UNCHANGED <<node, state, trace, calls, dl, sm, summary_cache, files, call, ex, analysis_tasks, bg, polled, clock, queried, raised>>

\* query_tasks(limit, industry_filter): a small limit or the default one; no
\* filter, an empty one, or an industry spelled unlike the rows spell it.
QueryCall ==
    /\ queried.phase = "idle"
    /\ \E limit \in (0..MaxLimit) \cup {DEFAULT_LIMIT},
          industry_filter \in {None, <<>>, <<"tech">>, <<"AUTO">>},
          sqlite \in SqliteOutcomes :
         \E results \in query_tasks(db, limit, industry_filter, sqlite) :
             queried' = [phase |-> "returned", limit |-> limit,
                         industry_filter |-> industry_filter,
                         fault |-> (sqlite = "error"), results |-> results]
    /\ UNCHANGED <<node, state, trace, calls, dl, sm, summary_cache, files, call, ex, analysis_tasks, db, bg, polled, clock, raised>>

\* The caller has the list.
QueryReturned ==
    /\ queried.phase = "returned"
    /\ queried' = QueryIdle
    /\ UNCHANGED <<node, state, trace, calls, dl, sm, summary_cache, files, call, ex, analysis_tasks, db, bg, polled, clock, raised>>

NextHistory ==
    \/ LogTask
    \/ QueryCall
    \/ QueryReturned
    \/ (queried.phase = "idle" /\ Tick)

SpecHistory == Init /\ [][NextHistory]_vars


\* ------------------------------------------------- log_task_status by itself
\* database.py:39  log_task_status called with any arguments: a status with
\* the result that goes with it, with or without a start time and a duration.
LogCall ==
    \E task_id \in TaskIds, status \in {"RUNNING", "COMPLETED", "FAILED"},
       start_time \in {None, <<"10:00">>}, duration_seconds \in {None, <<"7">>},
       sqlite \in SqliteOutcomes :
        /\ db' = log_task_status(db, task_id, <<"Tech">>, status,
                                 IF status = "RUNNING" THEN None ELSE <<status>>,
                                 start_time, duration_seconds, sqlite)
        /\ UNCHANGED <<node, state, trace, calls, dl, sm, summary_cache, files, call, ex, analysis_tasks, bg, polled, clock, queried, raised>>

NextLog == LogCall \/ Tick

SpecLog == Init /\ [][NextLog]_vars


\* ================================================================ claims
Outputs == {"agent_response", "synthesis_result", "error_message"}

\* C1: no exception ever propagates out of a graph invocation: whatever the
\* request and the collaborators do, the engine never ends by raising.
C1_NoExceptionLeavesGraph == node # "RAISED"

\* C2: an invocation that carries an industry ends with a final state in which
\* synthesis_result or error_message is populated.
C2_IndustryRunEndsWithResultOrError ==
    (node \in {"END", "RAISED"} /\ Truthy(state, "industry"))
        => /\ node = "END"
           /\ Truthy(state, "synthesis_result") \/ Truthy(state, "error_message")

\* C3: in the final state of an invocation at most one of agent_response,
\* synthesis_result and error_message is populated.
C3_AtMostOneOutput ==
    node = "END" => Cardinality({k \in Outputs : Truthy(state, k)}) <= 1

C3_Witness ==
    /\ node = "END"
    /\ Truthy(state, "agent_response")
    /\ trace = <<"route_request", "run_basic_agent">>

\* C4: the router sends a request with a non-empty industry to
\* identify_companies (also when it has a query), one with a non-empty query
\* and no industry to run_basic_agent, and one with neither to handle_error;
\* that node runs next, and the router changes no field of the state.
C4_Expected ==
    IF "industry" \in DOMAIN state /\ Len(state["industry"]) > 0
    THEN "identify_companies"
    ELSE IF "input_query" \in DOMAIN state /\ Len(state["input_query"]) > 0
    THEN "run_basic_agent"
    ELSE "handle_error"

C4_Routing ==
    [][node = "route_request" =>
          /\ state' = state
          /\ node' = C4_Expected
          /\ trace' = <<"route_request">>]_vars

C4_Witness ==
    /\ trace = <<"route_request">>
    /\ node = "identify_companies"
    /\ Truthy(state, "industry") /\ Truthy(state, "input_query")

\* C5: a request with neither an industry nor a query runs route_request and
\* handle_error and nothing else, calls no collaborator, and ends with the
\* error_message "Unknown error".
C5_NoInput == ~Truthy(state, "industry") /\ ~Truthy(state, "input_query")

C5_NoInputGoesToHandleError ==
    (node # "START" /\ C5_NoInput) =>
        /\ calls = 0
        /\ \/ node = "route_request" /\ trace = <<>>
           \/ node = "handle_error" /\ trace = <<"route_request">>
           \/ /\ node = "END"
              /\ trace = <<"route_request", "handle_error">>
              /\ "error_message" \in DOMAIN state
              /\ state["error_message"] = <<"Unknown error">>

C5_Witness ==
    /\ node = "END" /\ C5_NoInput
    /\ "input_query" \in DOMAIN state
    /\ Truthy(state, "error_message")

\* C6: once a research node sets error_message the next node is handle_error,
\* which keeps that message and makes no collaborator call, and then the run
\* is over: nothing runs after END.
C6_ErrorGoesToHandleErrorThenEnd ==
    [][/\ (node \in ResearchNodes /\ ~Truthy(state, "error_message")
              /\ Truthy(state', "error_message")) => node' = "handle_error"
       /\ (node = "handle_error" /\ Truthy(state, "error_message")) =>
              /\ node' = "END"
              /\ state'["error_message"] = state["error_message"]
              /\ calls' = calls /\ dl' = dl /\ sm' = sm
       /\ node # "END"]_vars

C6_Witness ==
    /\ node = "END"
    /\ trace = <<"route_request", "identify_companies", "search_for_reports",
                 "download_and_extract", "handle_error">>
    /\ StartsWith(state["error_message"], "Failed during download/extraction:")


\* C7: the mapping download_and_extract_reports returns, and the mapping
\* summarize_extracted_texts returns, has exactly the keys of its input, also
\* when jobs fail or raise.
C7_FanOutKeepsKeys ==
    /\ dl.phase = "returned" => DOMAIN dl.out = DOMAIN dl.input
    /\ sm.phase = "returned" => DOMAIN sm.out = DOMAIN sm.input

C7_Witness ==
    /\ sm.phase = "returned" /\ sm.chain
    /\ DOMAIN sm.input = Names
    /\ \E c \in Names : sm.result[c].kind = "raise"

\* C8: when synthesize_trends starts on a run without error_message,
\* report_urls, extracted_texts and individual_summaries are mappings with an
\* entry for every company of the list.
C8_Mappings == {"report_urls", "extracted_texts", "individual_summaries"}

C8_EveryEntityHasEntries ==
    (node = "synthesize_trends" /\ ~Truthy(state, "error_message")) =>
        \A k \in C8_Mappings :
            /\ k \in DOMAIN state
            /\ state[k].kind = "dict"
            /\ Range(state["companies"]) \subseteq DOMAIN state[k].items

\* C9: in a fan-out batch every entry of the returned mapping is the result of
\* that entity's own job, whatever the other jobs did; a job that ends, failed
\* or not, changes no entry recorded for a sibling, and a failed summary
\* changes no file of the summary cache; the batch returns its mapping, on
\* which the node sets no error_message and goes on to the next stage.
C9_NodeAfterBatch ==
    LET s == [report_urls |-> PyDict(dl.input)]
        result == download_and_extract(s, Ok(dl.out))
    IN  /\ result.kind = "return"
        /\ "error_message" \notin DOMAIN result.update
        /\ result.update["extracted_texts"].items = dl.out
        /\ ResearchTarget(ApplyUpdate(s, result.update), "summarize_reports")
               = "summarize_reports"

C9_OwnSlots ==
    /\ \A c \in DOMAIN dl.out :
           /\ c \in DOMAIN dl.future /\ dl.out[c] = dl.future[c]
           /\ dl.out[c] \in {r.text : r \in WorkerResults(dl.input[c])}
    /\ (dl.phase = "returned" /\ dl.input # NoItems) => C9_NodeAfterBatch
    /\ (sm.phase = "returned" /\ sm.chain) =>
           \A c \in DOMAIN sm.input :
               /\ c \in DOMAIN sm.out
               /\ sm.out[c] = (IF sm.result[c].kind = "raise"
                               THEN <<"Error", "retrieving summarization result:">>
                                        \o sm.result[c].exc
                               ELSE sm.result[c].value)

C9_Failed(r) == r.kind = "raise" \/ StartsWith(r.value, "Error")

C9_SiblingsUntouched ==
    /\ (dl.phase = "running" /\ dl'.phase # "idle") =>
           /\ \A c \in DOMAIN dl.future :
                  c \in DOMAIN dl'.future /\ dl'.future[c] = dl.future[c]
           /\ \A c \in DOMAIN dl.out :
                  c \in DOMAIN dl'.out /\ dl'.out[c] = dl.out[c]
    /\ (sm.phase = "running" /\ sm'.phase = "running") =>
           /\ \A c \in DOMAIN sm.result :
                  c \in DOMAIN sm'.result /\ sm'.result[c] = sm.result[c]
           /\ \A c \in DOMAIN sm'.result \ DOMAIN sm.result :
                  C9_Failed(sm'.result[c]) => summary_cache' = summary_cache

C9_FailureStaysInItsSlot == []C9_OwnSlots /\ [][C9_SiblingsUntouched]_vars

C9_Witness ==
    /\ dl.phase = "returned"
    /\ \E c, d \in DOMAIN dl.out :
           /\ StartsWith(dl.out[c], "Error")
           /\ dl.out[d] = <<"t", "\n">>

\* C10: a download_pdf call that finds a file at the cache path of its valid
\* URL returns that path and issues no GET and no delay; so when a call has
\* returned the path and no other call for the URL is about, a later call for
\* the same URL issues no GET.
C10_CacheHitSkipsNetwork ==
    \A p \in DOMAIN call :
        /\ call[p].existed =>
               /\ call[p].pc = "done"
               /\ call[p].result = LocalFilepath(call[p].url)
               /\ call[p].gets = 0 /\ call[p].sleeps = 0
        /\ (/\ call[p].pc # "idle" /\ call[p].after # {}
            /\ \A r \in DOMAIN call \ ({p} \cup call[p].after) :
                   call[r].pc = "idle" \/ call[r].url # call[p].url)
               => call[p].gets = 0

C10_Witness ==
    \E p, q \in DOMAIN call :
        /\ q \in call[p].after
        /\ call[q].gets = 2
        /\ call[p].existed /\ call[p].pc = "done"
        /\ call[p].url = "https://x.org/a.pdf"


\* C11: when download_pdf gives up on a valid URL, after its third attempt
\* failed by timeout, request error or unexpected error, it returns a text that
\* starts with Error and contains "after 3 attempts", and no file is at the
\* URL's cache path as it returns.
C11_Contains(text, tok) == \E i \in DOMAIN text : text[i] = tok

C11_GivesUp(p) ==
    /\ call[p].pc # "done" /\ call'[p].pc = "done"
    /\ call'[p].result # LocalFilepath(call'[p].url)
    /\ is_valid_url(call'[p].url)

C11_FinalFailureLeavesNoFile ==
    [][\A p \in DOMAIN call :
          C11_GivesUp(p) =>
              /\ StartsWith(call'[p].result, "Error")
              /\ C11_Contains(call'[p].result, "after 3 attempts")
              /\ call'[p].gets = MAX_DOWNLOAD_RETRIES
              /\ ~Exists(files', call'[p].url)]_vars

C11_Witness ==
    \E p \in DOMAIN call :
        /\ call[p].pc = "done" /\ call[p].cleaned
        /\ call[p].result = DownloadError(call[p].url, "due to timeout")
        /\ call[p].gets = 3 /\ call[p].sleeps = 2
        /\ ~Exists(files, call[p].url)


\* C12: no download_pdf call returns, as a cache hit, the path of a file that
\* holds an incomplete download, whatever the other calls on the URL are doing.
C12_CacheHit(p) ==
    /\ call[p].pc = "idle" /\ call'[p].pc = "done"
    /\ call'[p].result = LocalFilepath(call'[p].url)

C12_CacheHitIsComplete ==
    [][\A p \in DOMAIN call :
          C12_CacheHit(p) => files[url_to_filename(call'[p].url)] = "complete"]_vars


\* C13: download_pdf called with a text that is not an http or https URL with
\* a host returns the invalid-URL Error at once: it issues no GET, waits for no
\* retry delay, and the step creates no file.
C13_NotHttpUrl(url) ==
    Urlparse(url)[1] \notin {"http", "https"} \/ Urlparse(url)[2] = ""

C13_Rejected ==
    \A p \in DOMAIN call :
        (call[p].pc # "idle" /\ C13_NotHttpUrl(call[p].url)) =>
            /\ call[p].pc = "done"
            /\ call[p].result = InvalidUrlError(call[p].url)
            /\ StartsWith(call[p].result, "Error")
            /\ call[p].gets = 0 /\ call[p].sleeps = 0

C13_NoFileTouched ==
    \A p \in DOMAIN call :
        (call[p].pc = "idle" /\ call'[p].pc # "idle" /\ C13_NotHttpUrl(call'[p].url))
            => files' = files

C13_InvalidUrlFailsFast == []C13_Rejected /\ [][C13_NoFileTouched]_vars

C13_Witness ==
    \E p, q \in DOMAIN call :
        /\ call[p].pc = "done" /\ call[p].url = "ftp://x.org/a.pdf"
        /\ call[q].pc = "done" /\ call[q].url = "http://"
        /\ files = NoItems


\* C14: extract_text_from_pdf on an existing .pdf file whose pages all yield
\* no text returns the Warning sentinel, not an Error; and a page that yields
\* no text adds nothing: the result is what the other pages give, each
\* followed by a newline.
C14_ReadablePdf ==
    /\ ex.phase = "returned" /\ ex.outcome.kind = "ok"
    /\ ex.local_filepath = LocalFilepath("https://x.org/a.pdf")

C14_WithText(pages) == SelectSeq(pages, LAMBDA page : page # <<>>)

RECURSIVE C14_Lines(_)
C14_Lines(pages) ==
    IF pages = <<>> THEN <<>>
    ELSE Head(pages) \o <<"\n">> \o C14_Lines(Tail(pages))

C14_EmptyPagesGiveWarning ==
    C14_ReadablePdf =>
        IF C14_WithText(ex.outcome.value) = <<>>
        THEN /\ StartsWith(ex.result, "Warning")
             /\ ~StartsWith(ex.result, "Error")
        ELSE ex.result = C14_Lines(C14_WithText(ex.outcome.value))

C14_Witness ==
    /\ C14_ReadablePdf
    /\ ex.outcome.value = <<<<>>, <<"t">>, <<>>>>
    /\ ex.result = <<"t", "\n">>


\* C15: summarizing an entity whose text is missing, empty, blank, or tagged
\* Error or Warning returns the Skipped sentinel: the task never waits for the
\* completion service, never gets as far as the summary cache, and the step
\* changes no cache file.
C15_Blank(text) == \A i \in DOMAIN text : text[i] \in {" ", "\n"}

C15_Unusable(text) ==
    \/ text = None
    \/ C15_Blank(text)
    \/ text # <<>> /\ text[1] \in {"Error", "Warning"}

C15_Skipped ==
    \A c \in DOMAIN sm.task :
        C15_Unusable(sm.input[c]) =>
            /\ sm.task[c] \in {"pending", "done"}
            /\ c \notin sm.looked
            /\ c \in DOMAIN sm.result =>
                   sm.result[c] = Ok(<<"Skipped", "due to previous error or empty text.">>)
            /\ c \in DOMAIN sm.out => StartsWith(sm.out[c], "Skipped")

C15_NoCallNoCache ==
    \A c \in DOMAIN sm.task :
        (C15_Unusable(sm.input[c]) /\ c \in DOMAIN sm'.task
            /\ sm.task[c] = "pending" /\ sm'.task[c] # "pending")
            => calls' = calls /\ summary_cache' = summary_cache

C15_UnusableTextIsSkipped == []C15_Skipped /\ [][C15_NoCallNoCache]_vars

C15_Witness ==
    /\ sm.phase = "returned" /\ sm.chain
    /\ \E c, d \in DOMAIN sm.input :
           /\ sm.input[c] = <<"Warning", ": No text could be extracted from PDF:">>
           /\ sm.input[d] = <<" ", "\n">>
           /\ StartsWith(sm.out[c], "Skipped") /\ StartsWith(sm.out[d], "Skipped")
    /\ CacheFilename(<<"A">>) \in DOMAIN summary_cache


\* C16: once a summary is stored for an entity, a later summarize call for
\* that entity with a usable text, on a working file system, returns exactly
\* the stored text, calls no completion service and leaves the cache as it is;
\* and what is stored is always a non-empty answer of the completion service.
C16_Usable(text) == ~C15_Unusable(text) /\ text # <<"No valid URL found.">>

C16_Starts(c) ==
    /\ c \in DOMAIN sm.task /\ c \in DOMAIN sm'.task
    /\ sm.task[c] = "pending" /\ sm'.task[c] # "pending"

C16_HitReturnsStored ==
    \A c \in DOMAIN sm.task :
        (/\ C16_Starts(c)
         /\ C16_Usable(sm.input[c])
         /\ CacheFilename(c) \in DOMAIN summary_cache
         /\ c \notin sm'.fault)
            => /\ sm'.task[c] = "done"
               /\ sm'.result[c] = Ok(summary_cache[CacheFilename(c)])
               /\ calls' = calls
               /\ summary_cache' = summary_cache

C16_Stored ==
    \A f \in DOMAIN summary_cache :
        summary_cache[f] # <<>> /\ Ok(summary_cache[f]) \in ChainOutcomes

C16_CachedSummaryIsReused == []C16_Stored /\ [][C16_HitReturnsStored]_vars

C16_Witness ==
    /\ sm.phase = "returned" /\ calls = 0
    /\ \E c \in DOMAIN sm.out :
           /\ sm.input[c] = <<"t", "\n">>
           /\ c \in sm.looked
           /\ sm.out[c] = <<"s2">>
           /\ summary_cache[CacheFilename(c)] = <<"s2">>


\* C17: when synthesize_trends runs and no entity has a usable summary (each
\* one is empty or tagged Error or Skipped, as it is for every entity whose
\* text the summarization skips), the node calls no completion service, sets
\* error_message to "Analysis failed: No valid summaries could be generated.",
\* sets no synthesis_result, and handle_error runs next.
C17_NoUsableSummary(s) ==
    /\ "individual_summaries" \in DOMAIN s
    /\ LET v == s["individual_summaries"]
       IN  IF v.kind = "dict"
           THEN \A c \in DOMAIN v.items :
                    \/ v.items[c] \in {None, <<>>}
                    \/ v.items[c][1] \in {"Error", "Skipped"}
           ELSE \A c \in DOMAIN v.args : SkipsSummary(v.args[c])

C17_NoValidSummaries ==
    [][(/\ node = "synthesize_trends"
        /\ ~Truthy(state, "error_message")
        /\ C17_NoUsableSummary(state))
           => /\ node' = "handle_error"
              /\ Get(state', "error_message", None)
                     = <<"Analysis failed: No valid summaries could be generated.">>
              /\ ~Truthy(state', "synthesis_result")
              /\ calls' = calls]_vars


\* C18: search_for_reports records for every company the first PDF URL of its
\* search result text, or None when the text has none; download_and_extract
\* then records "No valid URL found." for every company whose entry is None or
\* an Error sentinel, with no download and no extraction attempted, and the
\* result of download and extraction for a company with a URL.
C18_IsFirstPdfUrl(entry, text) ==
    \E i \in DOMAIN text :
        /\ text[i] \in PdfUrls /\ entry = <<text[i]>>
        /\ \A j \in 1..(i - 1) : text[j] \notin PdfUrls

C18_EntryOf(entry, outcome) ==
    IF outcome.kind = "raise" THEN StartsWith(entry, "Error")
    ELSE IF \E i \in DOMAIN outcome.value : outcome.value[i] \in PdfUrls
    THEN C18_IsFirstPdfUrl(entry, outcome.value)
    ELSE entry = None

C18_Search ==
    (node = "search_for_reports" /\ ~Truthy(state, "error_message")) =>
        \A outcome \in SearchOutcomes :
            LET result == search_for_reports(state, [c \in ToSearch(state) |-> outcome])
            IN  /\ result.kind = "return"
                /\ DOMAIN result.update["report_urls"].items = Range(state["companies"])
                /\ \A c \in ToSearch(state) :
                       C18_EntryOf(result.update["report_urls"].items[c], outcome)

C18_NoUrl(entry) == entry = None \/ StartsWith(entry, "Error")

C18_Download ==
    /\ \A c \in DOMAIN dl.future :
           IF C18_NoUrl(dl.input[c])
           THEN dl.future[c] = <<"No valid URL found.">>
           ELSE /\ dl.future[c] # <<"No valid URL found.">>
                /\ \E download \in DownloadOutcomes(dl.input[c][1]),
                      extract \in ExtractOutcomes :
                       dl.future[c] = process_single_report_download_extract(
                                          dl.input[c], download, extract)
    /\ (node = "summarize_reports" /\ ~Truthy(state, "error_message")) =>
           \A c \in DOMAIN state["report_urls"].items :
               C18_NoUrl(state["report_urls"].items[c])
                   <=> state["extracted_texts"].items[c] = <<"No valid URL found.">>

C18_NoAttempt ==
    \A c \in DOMAIN dl.job :
        (/\ dl.phase = "running" /\ dl'.phase = "running"
         /\ dl.job[c] = "running" /\ dl'.job[c] = "done"
         /\ C18_NoUrl(dl.input[c])) => calls' = calls

C18_UrlThenText == [](C18_Search /\ C18_Download) /\ [][C18_NoAttempt]_vars

C18_Witness ==
    /\ node = "summarize_reports"
    /\ state["companies"] = <<<<"A">>, <<"B">>>>
    /\ state["report_urls"].items[<<"A">>] = <<"https://x.org/a.pdf">>
    /\ state["report_urls"].items[<<"B">>] = None
    /\ state["extracted_texts"].items[<<"A">>] = <<"t", "\n">>
    /\ state["extracted_texts"].items[<<"B">>] = <<"No valid URL found.">>


\* C19: POST /analyze returns the new task id without waiting for the run, and
\* when it returns the analysis_tasks table holds a row with status PENDING
\* for that id.
C19_Submitted(task_id) ==
    task_id \notin DOMAIN analysis_tasks /\ task_id \in DOMAIN analysis_tasks'

C19_PendingRowAtSubmission ==
    [][\A task_id \in TaskIds :
          C19_Submitted(task_id) =>
              /\ bg'[task_id].pc = "scheduled"
              /\ analysis_tasks'[task_id].status = "PENDING"
              /\ task_id \in DOMAIN db'
              /\ db'[task_id].status = "PENDING"]_vars

\* C20: the status of a task, in the registry and as successive polls see it,
\* only moves forward along PENDING, RUNNING, then one of COMPLETED, FAILED
\* and UNKNOWN: never backwards, and never again once it is one of these
\* three, whatever the other tasks, polls and runs do.
C20_Rank(status) ==
    CASE status = "never" -> 0
      [] status = "404" -> 1
      [] status = "PENDING" -> 2
      [] status = "RUNNING" -> 3
      [] status \in {"COMPLETED", "FAILED", "UNKNOWN"} -> 4

C20_Forward(old, new) ==
    \/ new = old
    \/ C20_Rank(old) < C20_Rank(new)

C20_StatusOf(registry, task_id) ==
    IF task_id \in DOMAIN registry THEN registry[task_id].status ELSE "404"

C20_StatusMovesForward ==
    [][\A task_id \in TaskIds :
          /\ (polled' # polled /\ polled'.task_id = task_id) =>
                /\ polled'.status = C20_StatusOf(analysis_tasks', task_id)
                /\ polled.task_id = task_id => C20_Forward(polled.status, polled'.status)
          /\ C20_Forward(C20_StatusOf(analysis_tasks, task_id),
                         C20_StatusOf(analysis_tasks', task_id))
          /\ C20_Rank(C20_StatusOf(analysis_tasks', task_id))
                 <= C20_Rank(C20_StatusOf(analysis_tasks, task_id)) + 1]_vars

C20_Witness ==
    /\ polled.task_id = 2 /\ polled.status = "RUNNING"
    /\ analysis_tasks[1].status = "FAILED" /\ analysis_tasks[2].status = "COMPLETED"
    /\ bg[1].pc = "done" /\ bg[2].pc = "done"

\* C21: when the graph returned a final state to the background run, the task
\* is COMPLETED exactly when synthesis_result is present and error_message is
\* not, FAILED exactly when error_message is present, UNKNOWN exactly when
\* neither is; the result recorded in the registry, and in the table when the
\* write went through, is the synthesis text, the error text or the fixed
\* placeholder.  A text is present when the key is set to a non-empty text.
C21_Present(final_state, key) ==
    /\ key \in DOMAIN final_state
    /\ final_state[key] # None
    /\ Len(final_state[key]) > 0

C21_Placeholder == <<"Graph finished, but no synthesis result or error message found.">>

C21_Expected(final_state) ==
    LET error == C21_Present(final_state, "error_message")
        synthesis == C21_Present(final_state, "synthesis_result")
    IN  CASE error -> [status |-> "FAILED", result |-> final_state["error_message"]]
          [] synthesis /\ ~error ->
                 [status |-> "COMPLETED", result |-> final_state["synthesis_result"]]
          [] ~synthesis /\ ~error -> [status |-> "UNKNOWN", result |-> C21_Placeholder]

C21_ClassifiedByFinalState ==
    \A task_id \in TaskIds :
        (bg[task_id].pc = "done" /\ bg[task_id].invoked.kind = "ok") =>
            LET expected == C21_Expected(bg[task_id].invoked.value)
            IN  /\ analysis_tasks[task_id].status = expected.status
                /\ analysis_tasks[task_id].result = expected.result
                /\ ~bg[task_id].lost =>
                       /\ task_id \in DOMAIN db
                       /\ db[task_id].status = expected.status
                       /\ db[task_id].result_summary = expected.result

C21_Witness ==
    /\ bg[1].pc = "done" /\ bg[2].pc = "done"
    /\ C21_Present(bg[1].invoked.value, "error_message")
    /\ C21_Present(bg[1].invoked.value, "synthesis_result")
    /\ analysis_tasks[1].status = "FAILED"
    /\ bg[2].invoked = Ok([industry |-> <<"Tech">>, synthesis_result |-> <<"s">>])
    /\ analysis_tasks[2].status = "COMPLETED" /\ ~bg[2].lost
    /\ db[2].result_summary = <<"s">>

\* C22: when the graph invocation of a background run raised, the run ends
\* with the task FAILED and a result that contains the exception text, in the
\* registry and, when the table accepted the write, in the task's row; the
\* task is not left RUNNING once its run is over, and stays as recorded.
C22_Contains(text, part) ==
    \E i \in 0..(Len(text) - Len(part)) :
        \A j \in 1..Len(part) : text[i + j] = part[j]

C22_Raised(task_id) == bg[task_id].pc = "done" /\ bg[task_id].invoked.kind = "raise"

C22_Recorded ==
    \A task_id \in TaskIds :
        /\ C22_Raised(task_id) =>
               /\ analysis_tasks[task_id].status = "FAILED"
               /\ C22_Contains(analysis_tasks[task_id].result, bg[task_id].invoked.exc)
               /\ ~bg[task_id].lost =>
                      /\ task_id \in DOMAIN db
                      /\ db[task_id].status = "FAILED"
                      /\ C22_Contains(db[task_id].result_summary, bg[task_id].invoked.exc)
        /\ bg[task_id].pc = "done" =>
               /\ analysis_tasks[task_id].status # "RUNNING"
               /\ ~bg[task_id].lost => db[task_id].status # "RUNNING"

C22_Stays ==
    \A task_id \in TaskIds :
        C22_Raised(task_id) =>
            /\ analysis_tasks'[task_id] = analysis_tasks[task_id]
            /\ bg'[task_id] = bg[task_id]
            /\ task_id \in DOMAIN db => db'[task_id] = db[task_id]

C22_RaiseIsRecordedAsFailed == []C22_Recorded /\ [][C22_Stays]_vars

C22_Witness ==
    /\ C22_Raised(1) /\ ~bg[1].lost
    /\ db[1].status = "FAILED"
    /\ db[1].result_summary = <<"An unexpected error occurred:", "boom">>
    /\ analysis_tasks[1].result = <<"An unexpected error occurred:", "boom">>

\* C23: what query_tasks(limit, industry_filter) returns are rows of the table
\* as they are now, each once, all COMPLETED, all of the filter's industry
\* whatever the case of the letters when a filter is given, never an older row
\* before a newer one, and at most limit of them; unless the database failed
\* they are the newest of the rows that qualify, as many as the limit allows.
\* With three tasks logged COMPLETED, FAILED, COMPLETED for one industry, the
\* last 5 for that industry are exactly the two COMPLETED rows.
C23_SameIgnoringCase(a, b) ==
    /\ Len(a) = Len(b)
    /\ \A i \in DOMAIN a :
           \/ a[i] = b[i]
           \/ \E spellings \in {{"tech", "Tech", "TECH"}, {"auto", "Auto", "AUTO"}} :
                  a[i] \in spellings /\ b[i] \in spellings

C23_FilterGiven == queried.industry_filter \notin {None, <<>>}

C23_Qualifies(task_id) ==
    /\ db[task_id].status = "COMPLETED"
    /\ C23_FilterGiven => C23_SameIgnoringCase(db[task_id].industry, queried.industry_filter)

C23_Returned == {queried.results[i].task_id : i \in DOMAIN queried.results}

C23_Sound ==
    LET results == queried.results
    IN  /\ Len(results) <= queried.limit
        /\ \A i \in DOMAIN results :
               /\ results[i].task_id \in DOMAIN db
               /\ results[i].status = "COMPLETED"
               /\ results[i].industry = db[results[i].task_id].industry
               /\ results[i].result_summary = db[results[i].task_id].result_summary
               /\ results[i].timestamp = db[results[i].task_id].timestamp
               /\ C23_Qualifies(results[i].task_id)
        /\ \A i, j \in DOMAIN results :
               i < j => /\ results[i].task_id # results[j].task_id
                        /\ results[i].timestamp >= results[j].timestamp

C23_Newest ==
    LET qualifying == {task_id \in DOMAIN db : C23_Qualifies(task_id)}
    IN  ~queried.fault =>
            /\ Len(queried.results) =
                   IF Cardinality(qualifying) < queried.limit
                   THEN Cardinality(qualifying) ELSE queried.limit
            /\ \A left \in qualifying \ C23_Returned, i \in DOMAIN queried.results :
                   db[left].timestamp <= queried.results[i].timestamp

C23_Example ==
    (/\ DOMAIN db = {1, 2, 3}
     /\ db[1].status = "COMPLETED" /\ db[2].status = "FAILED" /\ db[3].status = "COMPLETED"
     /\ \A task_id \in {1, 2, 3} : db[task_id].industry = <<"Tech">>
     /\ queried.limit = 5 /\ queried.industry_filter = <<"tech">> /\ ~queried.fault) =>
        /\ Len(queried.results) = 2
        /\ C23_Returned = {1, 3}

C23_QueryReturnsNewestCompleted ==
    queried.phase = "returned" => C23_Sound /\ C23_Newest /\ C23_Example

C23_Witness ==
    /\ queried.phase = "returned" /\ ~queried.fault
    /\ DOMAIN db = {1, 2, 3}
    /\ db[1].status = "COMPLETED" /\ db[2].status = "FAILED" /\ db[3].status = "COMPLETED"
    /\ \A task_id \in {1, 2, 3} : db[task_id].industry = <<"Tech">>
    /\ db[1].timestamp < db[3].timestamp
    /\ queried.limit = 5 /\ queried.industry_filter = <<"tech">>
    /\ Len(queried.results) = 2
    /\ queried.results[1].task_id = 3 /\ queried.results[2].task_id = 1

\* C24: every analysis task that was submitted eventually has a terminal
\* status, COMPLETED, FAILED or UNKNOWN, in the registry that polling reads,
\* when the scheduler keeps running the background coroutine and the graph
\* invocation and every collaborator call returns or raises; no task stays
\* PENDING or RUNNING for ever.
C24_Submitted(task_id) == task_id \in DOMAIN analysis_tasks

C24_Terminal(task_id) ==
    /\ task_id \in DOMAIN analysis_tasks
    /\ analysis_tasks[task_id].status \in {"COMPLETED", "FAILED", "UNKNOWN"}

C24_EveryTaskEnds ==
    \A task_id \in TaskIds : C24_Submitted(task_id) ~> C24_Terminal(task_id)

C24_Witness ==
    /\ C24_Terminal(1) /\ bg[1].pc = "done"
    /\ C24_Submitted(2) /\ bg[2].pc = "in graph" /\ node = "download_and_extract"
    /\ dl.phase = "running"

\* C25: in a fan-out batch, of downloads and extractions or of summaries, the
\* per-entity jobs in progress at any moment number at most the ceiling of the
\* batch: 10 for the download pool, max_workers for the summaries; a job over
\* the ceiling has not started.
C25_Downloading == {c \in DOMAIN dl.job : dl.job[c] = "running"}

C25_Summarizing == {c \in DOMAIN sm.task : sm.task[c] = "awaiting"}

C25_AtMostCeilingInProgress ==
    /\ dl.phase = "running" => Cardinality(C25_Downloading) <= MAX_WORKERS
    /\ sm.phase = "running" => Cardinality(C25_Summarizing) <= sm.max_workers

\* C26: a download_pdf call issues at most MAX_DOWNLOAD_RETRIES GETs and none
\* after it has returned; an attempt that fails, whatever the kind of failure,
\* is followed by the retry delay and another GET when it was not the last
\* attempt, and by the return of the error with no delay when it was; so the
\* delay is taken only between two attempts, one less often than GETs are made.
C26_AttemptFails(p) ==
    /\ call[p].pc \in {"get", "write"}
    /\ call'[p] # call[p]
    /\ call'[p].pc # "write"
    /\ ~(call'[p].pc = "done" /\ call'[p].result = LocalFilepath(call'[p].url))

C26_Counts ==
    \A p \in DOMAIN call :
        /\ call[p].gets <= MAX_DOWNLOAD_RETRIES
        /\ call[p].pc = "get" => call[p].sleeps = call[p].gets
        /\ call[p].pc \in {"write", "sleep"} => call[p].sleeps = call[p].gets - 1
        /\ (call[p].pc = "done" /\ call[p].gets > 0) =>
               call[p].sleeps = call[p].gets - 1
        /\ (call[p].pc = "done" /\ call[p].gets = 0) => call[p].sleeps = 0

C26_Steps ==
    \A p \in DOMAIN call :
        /\ call[p].pc = "done" => call'[p] = call[p]
        /\ C26_AttemptFails(p) =>
               IF call'[p].gets < MAX_DOWNLOAD_RETRIES
               THEN call'[p].pc = "sleep" /\ call'[p].sleeps = call[p].sleeps
               ELSE /\ call'[p].pc = "done"
                    /\ StartsWith(call'[p].result, "Error")
                    /\ call'[p].sleeps = MAX_DOWNLOAD_RETRIES - 1
        /\ (call[p].pc = "sleep" /\ call'[p] # call[p]) =>
               /\ call'[p].pc = "get"
               /\ call'[p].sleeps = call[p].sleeps + 1
               /\ call'[p].gets = call[p].gets

C26_RetriesAreBounded == []C26_Counts /\ [][C26_Steps]_vars

C26_Witness ==
    \E p \in DOMAIN call :
        /\ call[p].pc = "done"
        /\ call[p].result = LocalFilepath(call[p].url)
        /\ call[p].gets = 2 /\ call[p].sleeps = 1

\* C27: when search_for_reports records an Error sentinel for a company it
\* searched for, the search for that company was attempted 3 times: the node
\* issued one search for every company it resolved and two more for every
\* company whose entry is an Error sentinel.
C27_Resolved ==
    DOMAIN state'["report_urls"].items \ DOMAIN Get(state, "report_urls", EmptyDict).items

C27_Failed ==
    {c \in C27_Resolved : StartsWith(state'["report_urls"].items[c], "Error")}

C27_FailedSearchIsRetried ==
    [][(node = "search_for_reports" /\ node' = "download_and_extract") =>
          calls' - calls >= Cardinality(C27_Resolved) + 2 * Cardinality(C27_Failed)]_vars

\* C28: for every company whose extracted text records a failure of download
\* and extraction (no valid URL, a failed download, an extraction Error or an
\* empty-text Warning), summarize_extracted_texts, given a chain, records the
\* Skipped text: the task never looks in the summary cache, never awaits the
\* chain with that text, and no step of the task writes the summary cache.
C28_RecordsFailure(text) ==
    /\ text # None
    /\ \/ text = <<"No valid URL found.">>
       \/ StartsWith(text, "Download failed:")
       \/ StartsWith(text, "Error")
       \/ StartsWith(text, "Warning")

C28_Skipped ==
    \A c \in DOMAIN sm.input :
        (sm.chain /\ C28_RecordsFailure(sm.input[c])) =>
            /\ c \notin sm.looked
            /\ sm.task[c] # "awaiting"
            /\ c \in DOMAIN sm.result => sm.result[c] = Ok(Skipped)
            /\ sm.phase = "returned" => sm.out[c] = Skipped

C28_NoCacheWrite ==
    \A c \in DOMAIN sm.input :
        (/\ sm.chain /\ C28_RecordsFailure(sm.input[c])
         /\ sm'.input = sm.input /\ sm'.task[c] # sm.task[c])
            => summary_cache' = summary_cache

C28_FailuresAreSkipped == []C28_Skipped /\ [][C28_NoCacheWrite]_vars

\* C29: on a research run whose state holds no error_message, the nodes that
\* have run are, in this order and each once, route_request,
\* identify_companies, search_for_reports, download_and_extract,
\* summarize_reports and synthesize_trends; once download_and_extract has run
\* its workers are finished and extracted_texts maps every company, and once
\* summarize_reports has run individual_summaries maps every company.
C29_Order ==
    <<"route_request", "identify_companies", "search_for_reports",
      "download_and_extract", "summarize_reports", "synthesize_trends">>

C29_ResearchRun ==
    /\ Len(trace) >= 2 /\ trace[2] = "identify_companies"
    /\ ~Truthy(state, "error_message")

C29_Merged(key) ==
    /\ key \in DOMAIN state
    /\ state[key].kind = "dict"
    /\ DOMAIN state[key].items = Range(state["companies"])

C29_NodesRunInOrder ==
    C29_ResearchRun =>
        /\ Len(trace) <= Len(C29_Order)
        /\ \A i \in DOMAIN trace : trace[i] = C29_Order[i]
        /\ Len(trace) < Len(C29_Order) => node \in {C29_Order[Len(trace) + 1], "RAISED"}
        /\ Len(trace) >= 4 => dl.phase = "idle" /\ C29_Merged("extracted_texts")
        /\ Len(trace) >= 5 => C29_Merged("individual_summaries")

\* C30: the step of run_basic_agent leads to END, with the node as the last of
\* the trace; when the agent loop raised, the state at END holds the
\* error_message of the failure and no agent_response, and its messages are
\* those of the request; otherwise it holds an agent_response and no
\* error_message.  handle_error does not run in an invocation in which
\* run_basic_agent ran.
C30_Failed(s) ==
    /\ "error_message" \in DOMAIN s
    /\ StartsWith(s["error_message"], "Failed during basic agent execution:")

C30_Step ==
    node = "run_basic_agent" =>
        /\ node' = "END"
        /\ trace' = Append(trace, "run_basic_agent")
        /\ raised' = raised
        /\ IF "agent_response" \in DOMAIN state'
           THEN "error_message" \notin DOMAIN state'
           ELSE /\ C30_Failed(state')
                /\ state'["messages"] = state["messages"]
                /\ \A k \in DOMAIN state : state'[k] = state[k]

C30_NoHandleError ==
    \A i, j \in DOMAIN trace :
        ~(trace[i] = "run_basic_agent" /\ trace[j] = "handle_error")

C30_BasicAgentEndsNormally == [][C30_Step]_vars /\ []C30_NoHandleError

C30_Witness ==
    /\ node = "END"
    /\ trace = <<"route_request", "run_basic_agent">>
    /\ C30_Failed(state)
    /\ "agent_response" \notin DOMAIN state
    /\ Len(state["messages"]) = 1

\* C31: a research node called with a state whose error_message is a non-empty
\* text runs and changes nothing: every field of the state is as before, no
\* collaborator is called, no download or summary batch is started, and no
\* file or cache entry is touched.
C31_ErrorSet ==
    /\ "error_message" \in DOMAIN state
    /\ state["error_message"] # None
    /\ Len(state["error_message"]) > 0

C31_Step ==
    (node \in ResearchNodes /\ C31_ErrorSet) =>
        /\ trace' = Append(trace, node)
        /\ state' = state
        /\ raised' = raised
        /\ calls' = calls
        /\ dl' = dl /\ sm' = sm /\ call' = call /\ ex' = ex
        /\ files' = files /\ summary_cache' = summary_cache

C31_FailedRunSkipsNode == [][C31_Step]_vars

C31_Witness ==
    /\ trace = <<"synthesize_trends">>
    /\ C31_ErrorSet
    /\ "individual_summaries" \in DOMAIN state
    /\ state["individual_summaries"].items = [c \in {<<"A">>} |-> <<"s1">>]
    /\ "synthesis_result" \notin DOMAIN state
    /\ calls = 0

\* C32: once a download_pdf call has returned the cache path of a URL with the
\* complete file written there, no step of any download_pdf call changes or
\* removes that file.
C32_Written(url) ==
    /\ \E p \in DOMAIN call :
           /\ call[p].pc = "done" /\ call[p].url = url
           /\ call[p].result = LocalFilepath(url)
    /\ url_to_filename(url) \in DOMAIN files
    /\ files[url_to_filename(url)] = "complete"

C32_CacheEntryIsImmutable ==
    [][\A url \in DownloadUrls :
          C32_Written(url) =>
              /\ url_to_filename(url) \in DOMAIN files'
              /\ files'[url_to_filename(url)] = "complete"]_vars

\* C33: once the summary cache holds a file, no step of a summarize task, in a
\* batch in which no file-system call has failed, removes the file or changes
\* its content.
C33_SummaryCacheIsImmutable ==
    [][sm'.fault = {} =>
          \A f \in DOMAIN summary_cache :
              /\ f \in DOMAIN summary_cache'
              /\ summary_cache'[f] = summary_cache[f]]_vars

\* C34: a text that extract_text_from_pdf returns as the text of the pages of a
\* PDF it read, and that is not blank, is not taken by the skip test of the
\* summarize task for a failure: the task does not record Skipped for it.
C34_Extracted ==
    /\ ex.phase = "returned"
    /\ ex.outcome.kind = "ok"
    /\ EndsWithPdf(ex.local_filepath)
    /\ ex.result = JoinPages(ex.outcome.value)
    /\ Strip(ex.result) # <<>>

C34_ExtractedTextIsSummarized == C34_Extracted => ~SkipsSummary(ex.result)

\* C35: identify_companies, run on a state without error_message, takes the
\* pieces of the response between its commas, in order, each with the blanks
\* at its ends removed, and drops the pieces that are left empty.  With no name
\* left, or with the completion call raising, its update is an error_message
\* and nothing else; otherwise it is the list of names together with empty
\* report_urls, extracted_texts and individual_summaries.
RECURSIVE C35_Trim(_)
C35_Trim(piece) ==
    IF piece = <<>> THEN <<>>
    ELSE IF piece[1] = " " THEN C35_Trim(Tail(piece))
    ELSE IF piece[Len(piece)] = " " THEN C35_Trim(SubSeq(piece, 1, Len(piece) - 1))
    ELSE piece

RECURSIVE C35_Names(_)
C35_Names(content) ==
    LET commas == {i \in DOMAIN content : content[i] = ","}
        cut == IF commas = {} THEN Len(content) + 1
               ELSE CHOOSE i \in commas : \A j \in commas : i <= j
        name == C35_Trim(SubSeq(content, 1, cut - 1))
        rest == IF commas = {} THEN <<>>
                ELSE C35_Names(SubSeq(content, cut + 1, Len(content)))
    IN  (IF name = <<>> THEN <<>> ELSE <<name>>) \o rest

C35_Update(outcome) ==
    LET result == identify_companies(state, outcome)
        names == IF outcome.kind = "raise" THEN <<>> ELSE C35_Names(outcome.value)
    IN  /\ result.kind = "return"
        /\ IF names = <<>>
           THEN /\ DOMAIN result.update = {"error_message"}
                /\ Len(result.update["error_message"]) > 0
           ELSE result.update = [companies |-> names,
                                 report_urls |-> EmptyDict,
                                 extracted_texts |-> EmptyDict,
                                 individual_summaries |-> EmptyDict]

C35_Identify ==
    (node = "identify_companies" /\ ~Truthy(state, "error_message")) =>
        \A outcome \in LlmOutcomes : C35_Update(outcome)

C35_Step ==
    (node = "identify_companies" /\ ~Truthy(state, "error_message")) =>
        IF Truthy(state', "error_message")
        THEN "companies" \notin DOMAIN state' /\ node' = "handle_error"
        ELSE /\ \E r \in Responses :
                    /\ C35_Names(r) # <<>>
                    /\ state'["companies"] = C35_Names(r)
             /\ state'["report_urls"] = EmptyDict
             /\ state'["extracted_texts"] = EmptyDict
             /\ state'["individual_summaries"] = EmptyDict

C35_NamesAreParsed == []C35_Identify /\ [][C35_Step]_vars

C35_Witness ==
    /\ node = "search_for_reports"
    /\ trace = <<"route_request", "identify_companies">>
    /\ state["companies"] = <<<<"A">>, <<"B">>>>
    /\ state["report_urls"] = EmptyDict

\* C36: the companies list of the workflow state never holds the same name at
\* two positions.
C36_CompaniesAreUnique ==
    "companies" \in DOMAIN state =>
        \A i, j \in DOMAIN state["companies"] :
            state["companies"][i] = state["companies"][j] => i = j

\* C37: the row of the table written when a background run starts holds a
\* start_time, and the row written when the run has finished holds that
\* start_time and a duration_seconds: neither is None on a terminal row.
C37_RowsCarryTimes ==
    \A task_id \in DOMAIN db :
        /\ db[task_id].status = "RUNNING" => db[task_id].start_time # None
        /\ db[task_id].status \in {"COMPLETED", "FAILED", "UNKNOWN"} =>
               /\ db[task_id].start_time # None
               /\ db[task_id].duration_seconds # None

\* C38: a log_task_status call that sqlite accepts leaves exactly the rows of
\* before and a row for its task id, all other rows as they were; the row of
\* its task id holds the status and the result of the call, and the start_time
\* of the call or, when the call gives none, the start_time the row held
\* before.  No step of the table removes a row, changes two rows at once, or
\* loses a start_time.
C38_Upsert(rows, task_id, status, result_summary, start_time, after) ==
    /\ DOMAIN after = DOMAIN rows \cup {task_id}
    /\ \A k \in DOMAIN rows \ {task_id} : after[k] = rows[k]
    /\ after[task_id].task_id = task_id
    /\ after[task_id].status = status
    /\ after[task_id].result_summary = result_summary
    /\ after[task_id].start_time =
           IF start_time # None THEN start_time
           ELSE IF task_id \in DOMAIN rows THEN rows[task_id].start_time
           ELSE None

C38_EveryCall ==
    \A task_id \in TaskIds, status \in {"RUNNING", "COMPLETED"},
       result_summary \in {None, <<"r">>}, start_time \in {None, <<"10:05">>} :
        C38_Upsert(db, task_id, status, result_summary, start_time,
                   log_task_status(db, task_id, <<"Tech">>, status, result_summary,
                                   start_time, None, "ok"))

C38_Step ==
    /\ DOMAIN db \subseteq DOMAIN db'
    /\ \A j, k \in DOMAIN db' :
           (/\ j \notin DOMAIN db \/ db'[j] # db[j]
            /\ k \notin DOMAIN db \/ db'[k] # db[k]) => j = k
    /\ \A k \in DOMAIN db : db[k].start_time # None => db'[k].start_time # None
    /\ \A k \in DOMAIN db' : db'[k].task_id = k

C38_LogIsUpsert == []C38_EveryCall /\ [][C38_Step]_vars

C38_Witness ==
    /\ 1 \in DOMAIN db /\ 2 \in DOMAIN db
    /\ db[1].status = "COMPLETED" /\ db[1].start_time = <<"10:00">>
    /\ db[1].duration_seconds = None
    /\ db[1].timestamp > db[2].timestamp

\* C39: once the background run of a task has finished, the table holds a row
\* for the task whose status and result are the status and the result of the
\* task's record in the registry.
C39_Agree(task_id) ==
    /\ task_id \in DOMAIN db
    /\ db[task_id].status = analysis_tasks[task_id].status
    /\ db[task_id].result_summary = analysis_tasks[task_id].result

C39_StoresAgreeAtRest ==
    \A task_id \in TaskIds : bg[task_id].pc = "done" => C39_Agree(task_id)

\* C39 as amended: the same for every finished run whose terminal write the
\* database accepted.
C39_StoresAgreeWhenWritten ==
    \A task_id \in TaskIds :
        (bg[task_id].pc = "done" /\ ~bg[task_id].lost) => C39_Agree(task_id)

C39_Witness ==
    /\ bg[1].pc = "done" /\ ~bg[1].lost
    /\ bg[2].pc = "done" /\ ~bg[2].lost
    /\ analysis_tasks[1].status = "COMPLETED" /\ db[1].result_summary = <<"s">>
    /\ analysis_tasks[2].status = "UNKNOWN" /\ db[2].status = "UNKNOWN"

\* C40: in every invocation no node runs twice, and the number of nodes that
\* run stays within the recursion_limit the invocation is given: 10 by the
\* command line, 5 by the integration test, which invokes with an industry.
CLI_RECURSION_LIMIT == 10
TEST_RECURSION_LIMIT == 5

C40_NoNodeTwice == \A i, j \in DOMAIN trace : trace[i] = trace[j] => i = j

C40_WithinCeilings ==
    /\ Len(trace) <= CLI_RECURSION_LIMIT
    /\ Truthy(state, "industry") => Len(trace) <= TEST_RECURSION_LIMIT

C40_NoCycleWithinCeiling == C40_NoNodeTwice /\ C40_WithinCeilings

=============================================================================


